---- MODULE Spec2Model ----
(***************************************************************************)
(* AsyncEFSPurge: a model of src/src/efspurge/purger.py.                   *)
(*                                                                         *)
(* A run of AsyncEFSPurger.purge(): the recursive scanner, the file        *)
(* processor tasks of each batch, the subdirectory dispatcher and the      *)
(* two-pass empty-directory reaper, over a small file-system tree.  Each   *)
(* action is the code between two suspension points (an I/O call, a        *)
(* semaphore or mutex acquisition, a wait on child tasks).                 *)
(***************************************************************************)
EXTENDS Integers, Sequences, FiniteSets, TLC

(***************************************************************************)
(* Bounds of the model.                                                    *)
(***************************************************************************)
\* entries (besides the root) a tree holds when the run starts
MaxEntries == 3
\* largest max_concurrent_subdirs tried
MaxSubdirCap == 2
\* largest task_batch_size tried
MaxBatch == 2
\* largest max_empty_dirs_to_delete tried (0 = unlimited)
MaxEmptyLimit == 2
\* largest max_concurrency_scanning and max_concurrency_deletion tried
MaxConcurrency == 2
\* changes other processes make to the tree during a run (SpecEnv)
MaxExternal == 1
\* nodes of one tree the file system refuses (SpecFaults)
MaxFaults == 2
\* subdirectories of the widest root of SpecWide, counted beyond one past
\* the emergency ceiling of the dispatcher
ExtraSubdirs == 1

(***************************************************************************)
(* Paths.  A path is the sequence of its components below "/".             *)
(***************************************************************************)
Root == <<"r">>

\* the paths an entry may live at, in the order scandir returns them
Order ==
  << <<"r", "a">>, <<"r", "b">>, <<"r", "a", "c">>, <<"r", "a", "d">>,
     <<"r", "a", "c", "e">>, <<"r", "b", "g">> >>

Universe == {Order[n] : n \in 1..Len(Order)}

Nodes == {Root} \cup Universe

\* Path.parent
Parent(p) == IF Len(p) = 0 THEN p ELSE SubSeq(p, 1, Len(p) - 1)

\* len(p.parts) of an absolute path: the leading "/" counts as a part
Parts(p) == Len(p) + 1

NoPath == <<>>

(***************************************************************************)
(* File-system nodes.                                                      *)
(***************************************************************************)
MTimes == {0, 1, 2}

Sizes == {2}

SymTargets == {Root, <<"r", "b">>}

\* the system call the file system refuses on a node, and the error it gives
NoFault == [op |-> "none", err |-> "ok"]

Absent ==
  [kind |-> "none", mtime |-> 0, size |-> 0, target |-> NoPath,
   fault |-> NoFault]

DirNode ==
  [kind |-> "dir", mtime |-> 0, size |-> 0, target |-> NoPath,
   fault |-> NoFault]

SpecialNode ==
  [kind |-> "special", mtime |-> 0, size |-> 0, target |-> NoPath,
   fault |-> NoFault]

FileNodes ==
  [kind : {"file"}, mtime : MTimes, size : Sizes, target : {NoPath},
   fault : {NoFault}]

SymlinkNodes ==
  [kind : {"symlink"}, mtime : {0}, size : {0}, target : SymTargets,
   fault : {NoFault}]

NodeValues == {Absent, DirNode, SpecialNode} \cup FileNodes \cup SymlinkNodes

\* a tree: every entry lives in a directory, a link does not point to itself
IsTree(f) ==
  /\ f[Root] = DirNode
  /\ \A p \in Universe :
       /\ f[p].kind # "none" => f[Parent(p)].kind = "dir"
       /\ f[p].kind = "symlink" => f[p].target # p

\* the entries of a tree, the root not counted
Entries(f) == {p \in Universe : f[p].kind # "none"}

\* the trees of at most MaxEntries entries in which r/b, if it is a
\* directory, is an empty one
Trees ==
  {f \in {[p \in Nodes |-> IF p = <<"r", "b", "g">> THEN Absent ELSE h[p]] :
            h \in [Nodes \ {<<"r", "b", "g">>} -> NodeValues]} :
     IsTree(f) /\ Cardinality(Entries(f)) <= MaxEntries}

VARIABLES
  fs,                        \* the tree on disk: path -> node
  cutoff_time,               \* self.cutoff_time
  dry_run,                   \* self.dry_run
  remove_empty_dirs,         \* self.remove_empty_dirs
  max_concurrent_subdirs,    \* self.max_concurrent_subdirs
  task_batch_size,           \* self.task_batch_size
  max_concurrency_scanning,  \* self.max_concurrency_scanning
  max_concurrency_deletion,  \* self.max_concurrency_deletion
  max_empty_dirs_to_delete,  \* self.max_empty_dirs_to_delete
  memory_limit_mb,           \* self.memory_limit_mb
  stats,                     \* self.stats
  current_phase,             \* self.current_phase
  scanning_end_time,         \* self.scanning_end_time
  empty_dirs,                \* self.empty_dirs
  active_directories,        \* self.active_directories
  scanning_semaphore,        \* self.scanning_semaphore._value
  deletion_semaphore,        \* self.deletion_semaphore._value
  subdir_semaphore,          \* self.subdir_semaphore._value
  stats_lock,                \* holder of self.stats_lock
  main,                      \* position of purge()
  scan,                      \* the scan_directory invocations, by directory
  ftask,                     \* the process_file coroutines, by file
  reaper,                    \* locals of _remove_empty_directories
  io,                        \* system calls issued so far, per path
  last_io,                   \* the reaper's latest system call
  ext_left,                  \* changes other processes may still make
  wide,                      \* a root of many leaf subdirectories, counted
  first_run,                 \* the run that ended before this one, if any
  governor,                  \* check_memory_pressure: its mutex and its calls
  reporter,                  \* locals of _background_progress_reporter
  root_path                  \* the root_path handed to __init__, normalised

config ==
  <<cutoff_time, dry_run, remove_empty_dirs, max_concurrent_subdirs,
    task_batch_size, max_concurrency_scanning, max_concurrency_deletion,
    max_empty_dirs_to_delete, memory_limit_mb>>

semaphores == <<scanning_semaphore, deletion_semaphore, subdir_semaphore>>

vars ==
  <<fs, config, stats, current_phase, scanning_end_time, empty_dirs,
    active_directories, semaphores, stats_lock, main, scan, ftask, reaper,
    io, last_io, ext_left, wide, first_run, governor, reporter, root_path>>

(***************************************************************************)
(* What the system calls see.                                              *)
(***************************************************************************)
\* the node at a path; above the root lies a directory this run never lists
NodeAt(p) == IF p \in Nodes THEN fs[p] ELSE DirNode

KindOf(p) == NodeAt(p).kind

\* os.path.exists / islink
Exists(p) == KindOf(p) # "none"

\* the system call `site` on p never returns: "stat" and "unlink" of
\* process_file, "scandir" of scan_directory, "recheck" of
\* _check_empty_directory, "rescan" and "rmdir" of the reaper
Hangs(p, site) == NodeAt(p).fault = [op |-> site, err |-> "hang"]

IsLink(p) == KindOf(p) = "symlink"

\* Path.resolve(): symbolic links replaced by what they point to
RECURSIVE Resolve(_)
Resolve(p) == IF IsLink(p) THEN Resolve(NodeAt(p).target) ELSE p

\* os.DirEntry: the path and the type cached from the directory read
DirEntry(p) == [path |-> p, kind |-> fs[p].kind]

is_file(e) == e.kind = "file"

is_dir(e) == e.kind = "dir"

InDir(d, p) == p \in Universe /\ Parent(p) = d /\ fs[p].kind # "none"

\* the entries of directory d, as os.scandir lists them
ListDir(d) ==
  LET here == SelectSeq(Order, LAMBDA p : InDir(d, p))
  IN  [n \in 1..Len(here) |-> DirEntry(here[n])]

\* async_scandir(path): "ok" with the entries, or the error raised
ScandirResult(p) ==
  LET q == Resolve(p)
  IN  CASE KindOf(q) = "none" -> [err |-> "FileNotFoundError", entries |-> <<>>]
        [] KindOf(q) # "dir" -> [err |-> "NotADirectoryError", entries |-> <<>>]
        [] NodeAt(q).fault.op = "scandir" ->
             [err |-> NodeAt(q).fault.err, entries |-> <<>>]
        [] OTHER -> [err |-> "ok", entries |-> ListDir(q)]

\* os.stat(path): follows links
StatResult(p) ==
  LET q == Resolve(p)
  IN  CASE KindOf(q) = "none" ->
             [err |-> "FileNotFoundError", st_mtime |-> 0, st_size |-> 0]
        [] NodeAt(q).fault.op = "stat" ->
             [err |-> NodeAt(q).fault.err, st_mtime |-> 0, st_size |-> 0]
        [] OTHER ->
             [err |-> "ok", st_mtime |-> NodeAt(q).mtime,
              st_size |-> NodeAt(q).size]

(***************************************************************************)
(* Locals of the coroutines.                                               *)
(***************************************************************************)
NoFrame ==
  [pc |-> "idle", entries |-> <<>>, i |-> 0, file_task_buffer |-> <<>>,
   subdirs |-> <<>>, remaining_subdirs |-> <<>>, active_tasks |-> {},
   iterations |-> 0, dispatched |-> FALSE]

NoTask == [pc |-> "idle", st_mtime |-> 0, st_size |-> 0]

NoReaper ==
  [pc |-> "idle", pass |-> 0, sorted_dirs |-> <<>>, idx |-> 0,
   processed_dirs |-> {}, new_empty_parents |-> {}, iteration |-> 0]

NoCalls == [stat |-> 0, unlink |-> 0, rmdir |-> 0, scandir |-> 0]

NoIo == [op |-> "none", path |-> NoPath, n |-> 0]

\* check_memory_pressure: the holder of memory_check_lock, the memory
\* samples taken and the half-second pauses begun; time.time() as last read
\* (at construction a warning interval or more past the 0 that
\* last_memory_warning starts with), and the warnings written
NoGovernor ==
  [lock |-> NoPath, samples |-> 0, sleeps |-> 0, now |-> 60,
   last_memory_warning |-> 0, warnings |-> 0]

\* _background_progress_reporter before its first tick; last_phase records
\* the phase the previous tick ran in
NoReporter ==
  [last_files_scanned |-> 0, last_dirs_scanned |-> 0,
   last_empty_dirs_deleted |-> 0, stuck_detection_count |-> 0, warnings |-> 0,
   last_phase |-> "none"]

\* path components, spelled out character by character
Spelled ==
  [proc |-> <<"p", "r", "o", "c">>, sys |-> <<"s", "y", "s">>,
   dev |-> <<"d", "e", "v">>, run |-> <<"r", "u", "n">>,
   var |-> <<"v", "a", "r">>, boot |-> <<"b", "o", "o", "t">>,
   bin |-> <<"b", "i", "n">>, sbin |-> <<"s", "b", "i", "n">>,
   lib |-> <<"l", "i", "b">>, lib64 |-> <<"l", "i", "b", "6", "4">>,
   usr |-> <<"u", "s", "r">>, etc |-> <<"e", "t", "c">>,
   procfs |-> <<"p", "r", "o", "c", "f", "s">>, mnt |-> <<"m", "n", "t">>,
   dot |-> <<".">>, dotdot |-> <<".", ".">>, empty |-> <<>>]

\* the root of the runs modelled: a directory under no system path
Mounted == [absolute |-> TRUE, parts |-> <<Spelled.mnt>>]

NoWide ==
  [pc |-> "idle", total |-> 0, files |-> 0, remaining |-> 0, created |-> 0,
   running |-> 0, finished |-> 0, iterations |-> 0, unlinked |-> 0,
   empty_dirs |-> 0, candidates |-> 0, rmdirs |-> 0]

\* no run has ended yet
NoRun ==
  [done |-> FALSE, dry_run |-> FALSE,
   stats |-> [files_scanned |-> 0, files_to_purge |-> 0, files_purged |-> 0,
              dirs_scanned |-> 0, symlinks_skipped |-> 0,
              special_files_skipped |-> 0, errors |-> 0, bytes_freed |-> 0,
              memory_backpressure_events |-> 0, empty_dirs_to_delete |-> 0,
              empty_dirs_deleted |-> 0]]

ZeroStats ==
  [files_scanned |-> 0, files_to_purge |-> 0, files_purged |-> 0,
   dirs_scanned |-> 0, symlinks_skipped |-> 0, special_files_skipped |-> 0,
   errors |-> 0, bytes_freed |-> 0, memory_backpressure_events |-> 0,
   empty_dirs_to_delete |-> 0, empty_dirs_deleted |-> 0]

\* the statistics mutex is held by no one
Free == NoPath

\* the largest of a set of naturals, 0 for the empty set
Max(S) == IF S = {} THEN 0 ELSE CHOOSE x \in S : \A y \in S : y <= x

AtLeastOne(n) == IF n < 1 THEN 1 ELSE n

\* what a tree can exercise: the most files one directory holds, the
\* subdirectories of the root, the directories below the root
MostFiles(tree) ==
  Max({Cardinality({p \in Universe : Parent(p) = d /\ tree[p].kind = "file"}) : d \in Nodes})

RootSubdirs(tree) ==
  Cardinality({p \in Universe : Parent(p) = Root /\ tree[p].kind = "dir"})

DirCount(tree) == Cardinality({p \in Universe : tree[p].kind = "dir"})

\* A parameter value beyond what the tree can exercise gives the same run as
\* the largest value the tree can exercise (a batch size above the number of
\* files of any directory, a semaphore wider than a batch, a rate limit above
\* the number of directories): one value stands for all of them.
Exercised(tree, extra) ==
  /\ task_batch_size <= MostFiles(tree) + extra + 1
  /\ max_concurrency_scanning <= AtLeastOne(MostFiles(tree) + extra)
  /\ max_concurrency_scanning <= task_batch_size
  /\ max_concurrency_deletion <= max_concurrency_scanning
  /\ dry_run => max_concurrency_deletion = 1
  /\ max_concurrent_subdirs <= AtLeastOne(RootSubdirs(tree))
  /\ max_empty_dirs_to_delete <= DirCount(tree)
  /\ ~remove_empty_dirs => max_empty_dirs_to_delete = 0

\* the parameters __init__ accepts, within the bounds of the model
Parameters ==
  /\ cutoff_time = 1
  /\ dry_run \in BOOLEAN
  /\ remove_empty_dirs \in BOOLEAN
  /\ max_concurrent_subdirs \in 1..MaxSubdirCap
  /\ task_batch_size \in 1..MaxBatch
  /\ max_concurrency_scanning \in 1..MaxConcurrency
  /\ max_concurrency_deletion \in 1..MaxConcurrency
  /\ max_empty_dirs_to_delete \in 0..MaxEmptyLimit

\* the default: no memory limit
Configured ==
  /\ Parameters
  /\ memory_limit_mb = 0

\* the fields __init__ sets, and every coroutine not yet started
Fresh(tree, ext) ==
  /\ fs = tree
  /\ stats = ZeroStats
  /\ current_phase = "initializing"
  /\ scanning_end_time = "None"
  /\ empty_dirs = {}
  /\ active_directories = {}
  /\ scanning_semaphore = max_concurrency_scanning
  /\ deletion_semaphore = max_concurrency_deletion
  /\ subdir_semaphore = max_concurrent_subdirs
  /\ stats_lock = Free
  /\ main = "init"
  /\ scan = [d \in Nodes |-> NoFrame]
  /\ ftask = [p \in Universe |-> NoTask]
  /\ reaper = NoReaper
  /\ io = [p \in Nodes |-> NoCalls]
  /\ last_io = NoIo
  /\ ext_left = ext
  /\ first_run = NoRun
  /\ governor = NoGovernor
  /\ reporter = NoReporter
  /\ root_path = Mounted

\* AsyncEFSPurger.__init__, for the validated parameters
Constructed(tree, ext) ==
  /\ Configured
  /\ Fresh(tree, ext)
  /\ wide = NoWide

Init == \E tree \in Trees : Constructed(tree, 0) /\ Exercised(tree, 0)

(***************************************************************************)
(* Helpers of the actions.                                                 *)
(***************************************************************************)
Range(s) == {s[n] : n \in 1..Len(s)}

Min(a, b) == IF a < b THEN a ELSE b

\* a counter update that subtracts
BumpDown(s, key, n) == [s EXCEPT ![key] = @ - n]

\* update_stats(key=n): needs the statistics mutex
Bump(s, key, n) == [s EXCEPT ![key] = @ + n]

Called(calls, p, op) ==
  IF p \in Nodes THEN [calls EXCEPT ![p][op] = @ + 1] ELSE calls

\* the dry-run flag ignored where deletions are decided
LiveAlways == TRUE

\* process_file, _remove_empty_directories: `if not self.dry_run`
Live == ~dry_run

\* the remove_empty_dirs flag ignored
ReapingAlways == TRUE

\* scan_directory, purge: `if self.remove_empty_dirs`
ReapingEnabled == remove_empty_dirs

\* process_file: `stat.st_mtime < self.cutoff_time`
IsOld(st_mtime) == st_mtime < cutoff_time

\* an entry classified by what it resolves to, the islink test left out
ClassifyFollowing(e) ==
  LET k == KindOf(Resolve(e.path))
  IN  IF k = "file" THEN "file" ELSE IF k = "dir" THEN "dir" ELSE "special"

\* scan_directory: the branch an entry takes; islink is asked of the disk now,
\* the type comes from the directory read
Classify(e) ==
  IF IsLink(e.path) THEN "symlink"
  ELSE IF is_file(e) THEN "file"
  ELSE IF is_dir(e) THEN "dir"
  ELSE "special"

\* the root comparison left out
IsRootDirNever(d) == FALSE

\* _check_empty_directory, _remove_empty_directories: `dir_resolved == root_resolved`
IsRootDir(d) == Resolve(d) = Resolve(Root)

\* every scanner hands its subdirectories to the dispatcher
AlwaysDispatch == TRUE

\* the dispatcher is used whenever a slot of the semaphore is free
DispatchWhenFree == subdir_semaphore > 0

\* scan_directory: `self.subdir_semaphore._value == self.max_concurrent_subdirs`
NotHoldingSubdirSemaphore == subdir_semaphore = max_concurrent_subdirs

\* _process_subdirs_with_constant_concurrency: `iterations > 10000`
MaxIterations == 10000

\* the coroutines of a batch, created by scan_directory and started by gather
Spawned(tasks, batch) ==
  [p \in Universe |->
     IF p \in Range(batch) THEN [NoTask EXCEPT !.pc = "start"] ELSE tasks[p]]

\* what remains of a frame when scan_directory has returned
Returned(frames, d) == [frames EXCEPT ![d] = [NoFrame EXCEPT !.pc = "done"]]

\* the registration is never taken back
DiscardedNever(registered, d) == registered

\* scan_directory's finally: `self.active_directories.discard(directory)`
Discarded(registered, d) == registered \ {d}

\* scan_with_semaphore: leaving `async with self.subdir_semaphore`
Released(d) ==
  IF scan[d].dispatched THEN subdir_semaphore + 1 ELSE subdir_semaphore

\* a task created for every pending path at once
TopUpAll(n_active, n_remaining) == n_remaining

\* one task at a time, whatever the limit
TopUpOne(n_active, n_remaining) ==
  IF n_active = 0 /\ n_remaining > 0 THEN 1 ELSE 0

\* the dispatcher's inner while: how many of n_remaining pending paths become
\* tasks when n_active are in flight
TopUp(n_active, n_remaining) ==
  IF n_active < max_concurrent_subdirs
  THEN Min(max_concurrent_subdirs - n_active, n_remaining)
  ELSE 0

\* the dispatcher leaves its loop: the emergency `break`, or
\* `while remaining_subdirs or active_tasks` is false
LeavesLoop(iterations, n_active, n_remaining) ==
  \/ iterations > MaxIterations
  \/ (n_remaining = 0 /\ n_active = 0)

\* the frames after the dispatcher of d has topped up its in-flight set
Dispatched(frames, d, active, remaining, iterations) ==
  LET n == TopUp(Cardinality(active), Len(remaining))
      started == {remaining[k] : k \in 1..n}
  IN  [s \in Nodes |->
         IF s = d
         THEN [frames[d] EXCEPT !.pc = "disp_wait",
                                !.remaining_subdirs = SubSeq(remaining, n + 1, Len(remaining)),
                                !.active_tasks = active \cup started,
                                !.iterations = iterations]
         ELSE IF s \in started
         THEN [NoFrame EXCEPT !.pc = "created", !.dispatched = TRUE]
         ELSE frames[s]]

\* the frames when d calls scan_directory on the head of its pending list
Called_Sequentially(frames, d, pending) ==
  [s \in Nodes |->
     IF s = d
     THEN [frames[d] EXCEPT !.pc = "seq_wait", !.remaining_subdirs = pending]
     ELSE IF s = Head(pending)
     THEN [NoFrame EXCEPT !.pc = "enter"]
     ELSE frames[s]]

(***************************************************************************)
(* purge(): start of the run.                                              *)
(***************************************************************************)
PurgeStart ==
  /\ main = "init"
  /\ IF Exists(Root)
     THEN /\ main' = "scanning"
          /\ current_phase' = "scanning"
          /\ scan' = [scan EXCEPT ![Root] = [NoFrame EXCEPT !.pc = "enter"]]
     ELSE /\ main' = "failed"
          /\ UNCHANGED <<current_phase, scan>>
  /\ UNCHANGED <<fs, config, stats, scanning_end_time, empty_dirs,
                 active_directories, semaphores, stats_lock, ftask, reaper,
                 io, last_io, ext_left, wide, first_run, governor, reporter, root_path>>

(***************************************************************************)
(* scan_directory(d).                                                      *)
(***************************************************************************)
\* registration, dirs_scanned, and the directory read
ScanEnter(d) ==
  /\ scan[d].pc = "enter"
  /\ stats_lock = Free
  /\ ~Hangs(d, "scandir")
  /\ LET r == ScandirResult(d)
     IN  /\ io' = Called(io, d, "scandir")
         /\ IF r.err = "ok"
            THEN /\ scan' = [scan EXCEPT ![d].pc = "loop", ![d].entries = r.entries,
                                         ![d].i = 1]
                 /\ active_directories' = active_directories \cup {d}
                 /\ stats' = Bump(stats, "dirs_scanned", 1)
                 /\ UNCHANGED subdir_semaphore
            ELSE /\ scan' = Returned(scan, d)
                 /\ active_directories' = Discarded(active_directories, d)
                 /\ stats' = Bump(Bump(stats, "dirs_scanned", 1), "errors", 1)
                 /\ subdir_semaphore' = Released(d)
  /\ UNCHANGED <<fs, config, current_phase, scanning_end_time, empty_dirs,
                 scanning_semaphore, deletion_semaphore, stats_lock, main,
                 ftask, reaper, last_io, ext_left, wide, first_run, governor, reporter, root_path>>

\* the limit is taken for set, whatever memory_limit_mb is
\* the mutex kept when the `async with` block is left
HeldOn(holder, d) == holder

\* the end of an `async with` block on a mutex that d holds
ReleasedBy(holder, d) == IF holder = d THEN Free ELSE holder

GovernorOffNever == FALSE

\* check_memory_pressure: `if self.memory_limit_mb <= 0: return`
GovernorOff == memory_limit_mb <= 0

\* what scan_directory does once check_memory_pressure has returned: gather
\* on the batch it holds (_process_file_batch), or else, the batches done,
\* the dispatcher or the sequential calls for its subdirectories
Resumed(frames, d) ==
  IF frames[d].file_task_buffer # <<>>
  THEN [frames EXCEPT ![d].pc = "drain"]
  ELSE IF NotHoldingSubdirSemaphore
  THEN Dispatched(frames, d, {}, frames[d].subdirs, 1)
  ELSE Called_Sequentially(frames, d, frames[d].subdirs)

Started(tasks, frames, d) ==
  IF frames[d].file_task_buffer # <<>>
  THEN Spawned(tasks, frames[d].file_task_buffer)
  ELSE tasks

\* `await self.check_memory_pressure()` in scan_directory(d), whose frame the
\* step has brought to `frames`: the return at once, or the wait for
\* memory_check_lock
check_memory_pressure(frames, d) ==
  IF GovernorOff
  THEN /\ scan' = Resumed(frames, d)
       /\ ftask' = Started(ftask, frames, d)
  ELSE /\ scan' = [frames EXCEPT ![d].pc = "pressure"]
       /\ UNCHANGED ftask

\* get_memory_usage_mb(): the resident set, at the limit or above it
MemorySamples == {memory_limit_mb, memory_limit_mb + 1}

\* `self.memory_warning_interval = 60`
memory_warning_interval == 60

\* intervals of wall-clock time the model follows time.time() for
MaxElapsed == 1

\* what time.time() may have advanced by since it was last read
Elapses(now) ==
  {e \in {0, memory_warning_interval \div 2, memory_warning_interval} :
     now + e <= NoGovernor.now + MaxElapsed * memory_warning_interval}

\* the warning written at every check above the limit
WarningDueAlways(current_time, last) == TRUE

\* `current_time - self.last_memory_warning >= self.memory_warning_interval`
WarningDue(current_time, last) == current_time - last >= memory_warning_interval

\* check_memory_pressure past its first test: memory_check_lock, the sample,
\* and either the return or the warning, if one is due, with the mutex kept
MemCheck(d) ==
  /\ scan[d].pc = "pressure"
  /\ governor.lock = Free
  /\ \E memory_mb \in MemorySamples :
       IF memory_mb > memory_limit_mb
       THEN /\ \E e \in Elapses(governor.now) :
                 LET current_time == governor.now + e
                     due == WarningDue(current_time, governor.last_memory_warning)
                 IN  governor' =
                       [governor EXCEPT
                          !.lock = d, !.samples = @ + 1, !.now = current_time,
                          !.last_memory_warning = IF due THEN current_time ELSE @,
                          !.warnings = IF due THEN @ + 1 ELSE @]
            /\ scan' = [scan EXCEPT ![d].pc = "pressure_count"]
            /\ UNCHANGED ftask
       ELSE /\ governor' = [governor EXCEPT !.samples = @ + 1]
            /\ scan' = Resumed(scan, d)
            /\ ftask' = Started(ftask, scan, d)
  /\ UNCHANGED <<fs, config, stats, current_phase, scanning_end_time,
                 empty_dirs, active_directories, semaphores, stats_lock, main,
                 reaper, io, last_io, ext_left, wide, first_run, reporter,
                 root_path>>

\* `await self.update_stats(memory_backpressure_events=1)` inside the mutex,
\* then the pause begins
MemCount(d) ==
  /\ scan[d].pc = "pressure_count"
  /\ stats_lock = Free
  /\ stats' = Bump(stats, "memory_backpressure_events", 1)
  /\ governor' = [governor EXCEPT !.sleeps = @ + 1]
  /\ scan' = [scan EXCEPT ![d].pc = "pressure_sleep"]
  /\ UNCHANGED <<fs, config, current_phase, scanning_end_time, empty_dirs,
                 active_directories, semaphores, stats_lock, main, ftask,
                 reaper, io, last_io, ext_left, wide, first_run, reporter,
                 root_path>>

\* `await asyncio.sleep(0.5)` is over: gc.collect(), the mutex released
MemWake(d) ==
  /\ scan[d].pc = "pressure_sleep"
  /\ governor' = [governor EXCEPT !.lock = ReleasedBy(@, d)]
  /\ scan' = Resumed(scan, d)
  /\ ftask' = Started(ftask, scan, d)
  /\ UNCHANGED <<fs, config, stats, current_phase, scanning_end_time,
                 empty_dirs, active_directories, semaphores, stats_lock, main,
                 reaper, io, last_io, ext_left, wide, first_run, reporter,
                 root_path>>

\* one turn of `for entry in entries`
ScanEntry(d) ==
  /\ scan[d].pc = "loop"
  /\ scan[d].i <= Len(scan[d].entries)
  /\ LET e == scan[d].entries[scan[d].i]
         c == Classify(e)
         buffer == Append(scan[d].file_task_buffer, e.path)
         full == Len(buffer) >= task_batch_size
         advanced == [scan EXCEPT
                        ![d].i = @ + 1,
                        ![d].file_task_buffer = IF c = "file" THEN buffer ELSE @,
                        ![d].subdirs = IF c = "dir" THEN Append(@, e.path) ELSE @]
     IN  /\ c \in {"symlink", "special"} => stats_lock = Free
         /\ stats' = CASE c = "symlink" -> Bump(stats, "symlinks_skipped", 1)
                        [] c = "special" -> Bump(stats, "special_files_skipped", 1)
                        [] OTHER -> stats
         /\ IF c = "file" /\ full
            THEN check_memory_pressure(advanced, d)
            ELSE scan' = advanced /\ UNCHANGED ftask
  /\ UNCHANGED <<fs, config, current_phase, scanning_end_time, empty_dirs,
                 active_directories, semaphores, stats_lock, main, reaper,
                 io, last_io, ext_left, wide, first_run, governor, reporter, root_path>>

\* the buffer left as it is after a drain
Kept(buffer) == buffer

\* `finally: file_task_buffer.clear()`
Cleared(buffer) == <<>>

\* _process_file_batch: gather has collected every task of the batch
DrainDone(d) ==
  /\ scan[d].pc = "drain"
  /\ \A p \in Range(scan[d].file_task_buffer) : ftask[p].pc = "done"
  /\ scan' = [scan EXCEPT ![d].pc = "loop",
                          ![d].file_task_buffer = Cleared(@)]
  /\ UNCHANGED <<fs, config, stats, current_phase, scanning_end_time,
                 empty_dirs, active_directories, semaphores, stats_lock, main,
                 ftask, reaper, io, last_io, ext_left, wide, first_run, governor, reporter, root_path>>

\* after the last entry: the residual batch, then the subdirectories
ScanAfterLoop(d) ==
  /\ scan[d].pc = "loop"
  /\ scan[d].i > Len(scan[d].entries)
  /\ IF scan[d].file_task_buffer = <<>> /\ scan[d].subdirs = <<>>
     THEN scan' = [scan EXCEPT ![d].pc = "check"] /\ UNCHANGED ftask
     ELSE check_memory_pressure(scan, d)
  /\ UNCHANGED <<fs, config, stats, current_phase, scanning_end_time,
                 empty_dirs, active_directories, semaphores, stats_lock, main,
                 reaper, io, last_io, ext_left, wide, first_run, governor, reporter, root_path>>

\* scan_with_semaphore(s): `async with self.subdir_semaphore`
TaskAcquire(s) ==
  /\ scan[s].pc = "created"
  /\ subdir_semaphore > 0
  /\ subdir_semaphore' = subdir_semaphore - 1
  /\ scan' = [scan EXCEPT ![s].pc = "enter"]
  /\ UNCHANGED <<fs, config, stats, current_phase, scanning_end_time,
                 empty_dirs, active_directories, scanning_semaphore,
                 deletion_semaphore, stats_lock, main, ftask, reaper, io,
                 last_io, ext_left, wide, first_run, governor, reporter, root_path>>

\* the dispatcher of d wakes from asyncio.wait(FIRST_COMPLETED)
DispWake(d) ==
  /\ scan[d].pc = "disp_wait"
  /\ LET done == {s \in scan[d].active_tasks : scan[s].pc = "done"}
         active == scan[d].active_tasks \ done
         remaining == scan[d].remaining_subdirs
     IN  /\ done # {}
         /\ scan' =
              IF LeavesLoop(scan[d].iterations, Cardinality(active), Len(remaining))
              THEN [scan EXCEPT ![d].pc = "check", ![d].active_tasks = active]
              ELSE Dispatched(scan, d, active, remaining, scan[d].iterations + 1)
  /\ UNCHANGED <<fs, config, stats, current_phase, scanning_end_time,
                 empty_dirs, active_directories, semaphores, stats_lock, main,
                 ftask, reaper, io, last_io, ext_left, wide, first_run, governor, reporter, root_path>>

\* `for subdir in subdirs: await self.scan_directory(subdir)`: a call returned
SeqNext(d) ==
  /\ scan[d].pc = "seq_wait"
  /\ scan[Head(scan[d].remaining_subdirs)].pc = "done"
  /\ LET pending == Tail(scan[d].remaining_subdirs)
     IN  scan' = IF pending = <<>>
                 THEN [scan EXCEPT ![d].pc = "check", ![d].remaining_subdirs = <<>>]
                 ELSE Called_Sequentially(scan, d, pending)
  /\ UNCHANGED <<fs, config, stats, current_phase, scanning_end_time,
                 empty_dirs, active_directories, semaphores, stats_lock, main,
                 ftask, reaper, io, last_io, ext_left, wide, first_run, governor, reporter, root_path>>

\* every directory the scanner re-checks is taken for empty
FoundEmptyAlways(r) == TRUE

\* _check_empty_directory: scandir returned, and `len(entries) == 0`
FoundEmpty(r) == r.err = "ok" /\ Len(r.entries) = 0

\* `if self.remove_empty_dirs: await self._check_empty_directory(directory)`
\* up to the acquisition of the statistics mutex; else the return
ScanCheck(d) ==
  /\ scan[d].pc = "check"
  /\ IF ReapingEnabled /\ ~IsRootDir(d)
     THEN /\ stats_lock = Free
          /\ stats_lock' = d
          /\ scan' = [scan EXCEPT ![d].pc = "check_locked"]
          /\ UNCHANGED <<active_directories, subdir_semaphore>>
     ELSE /\ scan' = Returned(scan, d)
          /\ active_directories' = Discarded(active_directories, d)
          /\ subdir_semaphore' = Released(d)
          /\ UNCHANGED stats_lock
  /\ UNCHANGED <<fs, config, stats, current_phase, scanning_end_time,
                 empty_dirs, scanning_semaphore, deletion_semaphore, main,
                 ftask, reaper, io, last_io, ext_left, wide, first_run, governor, reporter, root_path>>

\* _check_empty_directory: the re-scan under the mutex, and the return
ScanCheckDone(d) ==
  /\ scan[d].pc = "check_locked"
  /\ ~Hangs(d, "recheck")
  /\ empty_dirs' = IF FoundEmpty(ScandirResult(d))
                   THEN empty_dirs \cup {d}
                   ELSE empty_dirs
  /\ io' = Called(io, d, "scandir")
  /\ stats_lock' = ReleasedBy(stats_lock, d)
  /\ scan' = Returned(scan, d)
  /\ active_directories' = Discarded(active_directories, d)
  /\ subdir_semaphore' = Released(d)
  /\ UNCHANGED <<fs, config, stats, current_phase, scanning_end_time,
                 scanning_semaphore, deletion_semaphore, main, ftask, reaper,
                 last_io, ext_left, wide, first_run, governor, reporter, root_path>>

(***************************************************************************)
(* process_file(p).                                                        *)
(***************************************************************************)
\* what the handlers of process_file add to errors: nothing for
\* FileNotFoundError, one for PermissionError and for any other Exception
ErrorsForNone(err) == 0

\* `except FileNotFoundError`: the target was removed by another process
VanishedNever(err) == FALSE

Vanished(err) == err = "FileNotFoundError"

ErrorsFor(err) == IF Vanished(err) THEN 0 ELSE 1

\* asyncio.Semaphore: `async with` goes on only while a slot is left
AcquirableAlways(value) == TRUE

Acquirable(value) == value > 0

\* `async with self.scanning_semaphore`, stat, files_scanned
PFStat(p) ==
  /\ ftask[p].pc = "start"
  /\ Acquirable(scanning_semaphore)
  /\ stats_lock = Free
  /\ ~Hangs(p, "stat")
  /\ LET r == StatResult(p)
     IN  /\ io' = Called(io, p, "stat")
         /\ IF r.err = "ok"
            THEN /\ ftask' = [ftask EXCEPT ![p] = [pc |-> "statted",
                                                   st_mtime |-> r.st_mtime,
                                                   st_size |-> r.st_size]]
                 /\ stats' = Bump(stats, "files_scanned", 1)
                 /\ scanning_semaphore' = scanning_semaphore - 1
            ELSE /\ ftask' = [ftask EXCEPT ![p] = [NoTask EXCEPT !.pc = "done"]]
                 /\ stats' = Bump(stats, "errors", ErrorsFor(r.err))
                 /\ UNCHANGED scanning_semaphore
  /\ UNCHANGED <<fs, config, current_phase, scanning_end_time, empty_dirs,
                 active_directories, deletion_semaphore, subdir_semaphore,
                 stats_lock, main, scan, reaper, last_io, ext_left, wide, first_run, governor, reporter, root_path>>

\* the age test, files_to_purge, and the dry-run return
PFCheck(p) ==
  /\ ftask[p].pc = "statted"
  /\ IF IsOld(ftask[p].st_mtime)
     THEN /\ stats_lock = Free
          /\ stats' = Bump(stats, "files_to_purge", 1)
          /\ IF Live
             THEN /\ ftask' = [ftask EXCEPT ![p].pc = "marked"]
                  /\ UNCHANGED scanning_semaphore
             ELSE /\ ftask' = [ftask EXCEPT ![p] = [NoTask EXCEPT !.pc = "done"]]
                  /\ scanning_semaphore' = scanning_semaphore + 1
     ELSE /\ ftask' = [ftask EXCEPT ![p] = [NoTask EXCEPT !.pc = "done"]]
          /\ scanning_semaphore' = scanning_semaphore + 1
          /\ UNCHANGED stats
  /\ UNCHANGED <<fs, config, current_phase, scanning_end_time, empty_dirs,
                 active_directories, deletion_semaphore, subdir_semaphore,
                 stats_lock, main, scan, reaper, io, last_io, ext_left, wide, first_run, governor, reporter, root_path>>

\* `async with self.deletion_semaphore`
PFAcquire(p) ==
  /\ ftask[p].pc = "marked"
  /\ Acquirable(deletion_semaphore)
  /\ deletion_semaphore' = deletion_semaphore - 1
  /\ ftask' = [ftask EXCEPT ![p].pc = "deleting"]
  /\ UNCHANGED <<fs, config, stats, current_phase, scanning_end_time,
                 empty_dirs, active_directories, scanning_semaphore,
                 subdir_semaphore, stats_lock, main, scan, reaper, io,
                 last_io, ext_left, wide, first_run, governor, reporter, root_path>>

\* os.remove(path): "ok", or the error raised
RemoveResult(p) ==
  CASE KindOf(p) = "none" -> "FileNotFoundError"
    [] KindOf(p) = "dir" -> "IsADirectoryError"
    [] NodeAt(p).fault.op = "unlink" -> NodeAt(p).fault.err
    [] OTHER -> "ok"

\* aiofiles.os.remove, files_purged and bytes_freed, and both releases
PFRemove(p) ==
  /\ ftask[p].pc = "deleting"
  /\ stats_lock = Free
  /\ ~Hangs(p, "unlink")
  /\ io' = Called(io, p, "unlink")
  /\ LET r == RemoveResult(p)
     IN  /\ fs' = IF r = "ok" THEN [fs EXCEPT ![p] = Absent] ELSE fs
         /\ stats' = CASE r = "ok" ->
                            Bump(Bump(stats, "files_purged", 1), "bytes_freed",
                                 ftask[p].st_size)
                        [] OTHER -> Bump(stats, "errors", ErrorsFor(r))
  /\ ftask' = [ftask EXCEPT ![p] = [NoTask EXCEPT !.pc = "done"]]
  /\ deletion_semaphore' = deletion_semaphore + 1
  /\ scanning_semaphore' = scanning_semaphore + 1
  /\ UNCHANGED <<config, current_phase, scanning_end_time, empty_dirs,
                 active_directories, subdir_semaphore, stats_lock, main, scan,
                 reaper, last_io, ext_left, wide, first_run, governor, reporter, root_path>>

(***************************************************************************)
(* purge(): the scan has returned.                                         *)
(***************************************************************************)
ScanFinished ==
  /\ main = "scanning"
  /\ scan[Root].pc = "done"
  /\ scanning_end_time' = "set"
  /\ main' = IF ReapingEnabled THEN "reap" ELSE "done"
  /\ UNCHANGED <<fs, config, stats, current_phase, empty_dirs,
                 active_directories, semaphores, stats_lock, scan, ftask,
                 reaper, io, last_io, ext_left, wide, first_run, governor, reporter, root_path>>

(***************************************************************************)
(* _remove_empty_directories().                                            *)
(***************************************************************************)
\* sorted(dirs, key=lambda p: len(p.parts), reverse=True): ties keep the
\* iteration order of the set, which is any order
IsDeepestFirst(s) == \A m, n \in 1..Len(s) : m < n => Parts(s[m]) >= Parts(s[n])

Orderings(S) ==
  {s \in [1..Cardinality(S) -> S] : \A m, n \in 1..Cardinality(S) : m # n => s[m] # s[n]}

\* the candidates taken in the iteration order of the set, unsorted
AnyOrder(S) == Orderings(S)

DeepestFirst(S) == {s \in Orderings(S) : IsDeepestFirst(s)}

\* the rate limit: `to_delete_count >= self.max_empty_dirs_to_delete`
RateLimitReached ==
  /\ max_empty_dirs_to_delete > 0
  /\ stats.empty_dirs_to_delete >= max_empty_dirs_to_delete

\* the re-check before rmdir left out
StillEmptyUnchecked(entries) == TRUE

\* the re-check before rmdir: `len(entries) > 0` skips the candidate
StillEmpty(entries) == Len(entries) = 0

\* os.rmdir(path): "ok", or the error raised
RmdirResult(p) ==
  CASE KindOf(p) = "none" -> "FileNotFoundError"
    [] KindOf(p) # "dir" -> "NotADirectoryError"
    [] \E c \in Universe : InDir(p, c) -> "OSError"
    [] OTHER -> "ok"

\* the parent looked at whatever it is
ParentAlwaysExamined(parent, directory, processed) == TRUE

\* `parent != directory and parent not in processed_dirs`, then
\* `parent_resolved != root_resolved`
ParentExamined(parent, directory, processed) ==
  /\ parent # directory
  /\ parent \notin processed
  /\ ~IsRootDir(parent)

\* no failure of the reaper counted
ReapErrorsNone(err) == 0

\* the handlers of the reaper: `except FileNotFoundError` is silent,
\* `except OSError` ends in update_stats(errors=1)
ReapErrors(err) == IF err = "FileNotFoundError" THEN 0 ELSE 1

\* the processed test left out
AlreadyProcessedNever(directory, processed) == FALSE

\* `if directory in processed_dirs: continue`
AlreadyProcessed(directory, processed) == directory \in processed

ReapStart ==
  /\ main = "reap"
  /\ IF empty_dirs = {}
     THEN /\ main' = "done"
          /\ UNCHANGED <<current_phase, reaper>>
     ELSE /\ stats_lock = Free
          /\ main' = "reaping"
          /\ current_phase' = "removing_empty_dirs"
          /\ \E order \in DeepestFirst(empty_dirs) :
               reaper' = [NoReaper EXCEPT !.pc = "pick", !.pass = 1,
                                          !.sorted_dirs = order, !.idx = 1]
  /\ UNCHANGED <<fs, config, stats, scanning_end_time, empty_dirs,
                 active_directories, semaphores, stats_lock, scan, ftask, io,
                 last_io, ext_left, wide, first_run, governor, reporter, root_path>>

\* one candidate, up to its re-scan: the processed test, the rate limit, the
\* root test and the scandir
ReapRescan ==
  /\ reaper.pc = "pick"
  /\ reaper.idx <= Len(reaper.sorted_dirs)
  /\ LET directory == reaper.sorted_dirs[reaper.idx]
         r == ScandirResult(directory)
         skip == [reaper EXCEPT !.idx = @ + 1,
                                !.processed_dirs = @ \cup {directory}]
     IN  IF AlreadyProcessed(directory, reaper.processed_dirs)
         THEN /\ reaper' = [reaper EXCEPT !.idx = @ + 1]
              /\ UNCHANGED <<stats, io, last_io>>
         ELSE IF RateLimitReached
         THEN /\ stats_lock = Free
              /\ reaper' = [reaper EXCEPT
                              !.idx = Len(reaper.sorted_dirs) + 1,
                              !.new_empty_parents = IF reaper.pass = 1 THEN @ ELSE {}]
              /\ UNCHANGED <<stats, io, last_io>>
         ELSE IF IsRootDir(directory)
         THEN /\ max_empty_dirs_to_delete > 0 => stats_lock = Free
              /\ reaper' = skip
              /\ UNCHANGED <<stats, io, last_io>>
         ELSE /\ max_empty_dirs_to_delete > 0 => stats_lock = Free
              /\ ~Hangs(directory, "rescan")
              /\ io' = Called(io, directory, "scandir")
              /\ last_io' = [op |-> "scandir", path |-> directory,
                             n |-> Len(r.entries)]
              /\ IF r.err = "ok" /\ StillEmpty(r.entries)
                 THEN /\ reaper' = [reaper EXCEPT !.pc = "rmdir"]
                      /\ UNCHANGED stats
                 ELSE /\ reaper' = skip
                      /\ (r.err = "ok" \/ Vanished(r.err)) => UNCHANGED stats
                      /\ ~(r.err = "ok" \/ Vanished(r.err)) =>
                           /\ stats_lock = Free
                           /\ stats' = Bump(stats, "errors", ReapErrors(r.err))
  /\ UNCHANGED <<fs, config, current_phase, scanning_end_time, empty_dirs,
                 active_directories, semaphores, stats_lock, main, scan, ftask,
                 ext_left, wide, first_run, governor, reporter, root_path>>

\* the rmdir (live) or the count alone (dry run), and the processed mark
ReapRmdir ==
  /\ reaper.pc = "rmdir"
  /\ stats_lock = Free
  /\ LET directory == reaper.sorted_dirs[reaper.idx]
         r == RmdirResult(directory)
         marked == [reaper EXCEPT !.processed_dirs = @ \cup {directory}]
     IN  IF ~Live
         THEN /\ stats' = Bump(stats, "empty_dirs_to_delete", 1)
              /\ reaper' = [marked EXCEPT !.pc = "parent"]
              /\ UNCHANGED <<fs, io, last_io>>
         ELSE /\ ~Hangs(directory, "rmdir")
              /\ io' = Called(io, directory, "rmdir")
              /\ last_io' = [op |-> "rmdir", path |-> directory, n |-> 0]
              /\ IF r = "ok"
                 THEN /\ fs' = [fs EXCEPT ![directory] = Absent]
                      /\ stats' = Bump(Bump(stats, "empty_dirs_to_delete", 1),
                                       "empty_dirs_deleted", 1)
                      /\ reaper' = [marked EXCEPT !.pc = "parent"]
                 ELSE /\ fs' = fs
                      /\ stats' = Bump(stats, "errors", ReapErrors(r))
                      /\ reaper' = [marked EXCEPT !.pc = "pick", !.idx = @ + 1]
  /\ UNCHANGED <<config, current_phase, scanning_end_time, empty_dirs,
                 active_directories, semaphores, stats_lock, main, scan, ftask,
                 ext_left, wide, first_run, governor, reporter, root_path>>

\* the look at the parent of the directory just handled
ReapParent ==
  /\ reaper.pc = "parent"
  /\ LET directory == reaper.sorted_dirs[reaper.idx]
         parent == Parent(directory)
         r == ScandirResult(parent)
     IN  IF ParentExamined(parent, directory, reaper.processed_dirs)
         THEN /\ ~Hangs(parent, "rescan")
              /\ io' = Called(io, parent, "scandir")
              /\ last_io' = [op |-> "scandir", path |-> parent,
                             n |-> Len(r.entries)]
              /\ reaper' = [reaper EXCEPT
                              !.pc = "pick", !.idx = @ + 1,
                              !.new_empty_parents =
                                 IF r.err = "ok" /\ Len(r.entries) = 0
                                 THEN @ \cup {parent} ELSE @]
         ELSE /\ reaper' = [reaper EXCEPT !.pc = "pick", !.idx = @ + 1]
              /\ UNCHANGED <<io, last_io>>
  /\ UNCHANGED <<fs, config, stats, current_phase, scanning_end_time,
                 empty_dirs, active_directories, semaphores, stats_lock, main,
                 scan, ftask, ext_left, wide, first_run, governor, reporter, root_path>>

\* the end of a pass: `while new_empty_parents`, or the return
ReapPassEnd ==
  /\ reaper.pc = "pick"
  /\ reaper.idx > Len(reaper.sorted_dirs)
  /\ (reaper.pass = 1 \/ reaper.new_empty_parents = {}) => stats_lock = Free
  /\ IF reaper.new_empty_parents = {}
     THEN /\ reaper' = [reaper EXCEPT !.pc = "done", !.sorted_dirs = <<>>, !.idx = 0]
          /\ main' = "done"
     ELSE /\ \E order \in DeepestFirst(reaper.new_empty_parents) :
               reaper' = [reaper EXCEPT !.pass = 2, !.iteration = @ + 1,
                                        !.sorted_dirs = order, !.idx = 1,
                                        !.new_empty_parents = {}]
          /\ UNCHANGED main
  /\ UNCHANGED <<fs, config, stats, current_phase, scanning_end_time,
                 empty_dirs, active_directories, semaphores, stats_lock, scan,
                 ftask, io, last_io, ext_left, wide, first_run, governor, reporter, root_path>>

(***************************************************************************)
(* The run on a tree nothing else touches.                                 *)
(***************************************************************************)
Next ==
  \/ PurgeStart
  \/ \E d \in Nodes : ScanEnter(d)
  \/ \E d \in Nodes : ScanEntry(d)
  \/ \E d \in Nodes : DrainDone(d)
  \/ \E d \in Nodes : ScanAfterLoop(d)
  \/ \E d \in Nodes : TaskAcquire(d)
  \/ \E d \in Nodes : DispWake(d)
  \/ \E d \in Nodes : SeqNext(d)
  \/ \E d \in Nodes : ScanCheck(d)
  \/ \E d \in Nodes : ScanCheckDone(d)
  \/ \E p \in Universe : PFStat(p)
  \/ \E p \in Universe : PFCheck(p)
  \/ \E p \in Universe : PFAcquire(p)
  \/ \E p \in Universe : PFRemove(p)
  \/ ScanFinished
  \/ ReapStart
  \/ ReapRescan
  \/ ReapRmdir
  \/ ReapParent
  \/ ReapPassEnd

Spec == Init /\ [][Next]_vars

(***************************************************************************)
(* The run on a tree other processes change: a writer creates an entry,    *)
(* or someone removes a file or an empty directory, between any two steps. *)
(***************************************************************************)
\* what a writer creates: a fresh file or a directory
Created ==
  {DirNode,
   [kind |-> "file", mtime |-> 2, size |-> 2, target |-> NoPath,
    fault |-> NoFault]}

ExtCreate(p) ==
  /\ ext_left > 0
  /\ main \in {"scanning", "reap", "reaping"}
  /\ fs[p].kind = "none"
  /\ NodeAt(Parent(p)).kind = "dir"
  /\ \E n \in Created : fs' = [fs EXCEPT ![p] = n]
  /\ ext_left' = ext_left - 1
  /\ UNCHANGED <<config, stats, current_phase, scanning_end_time, empty_dirs,
                 active_directories, semaphores, stats_lock, main, scan, ftask,
                 reaper, io, last_io, wide, first_run, governor, reporter, root_path>>

ExtRemove(p) ==
  /\ ext_left > 0
  /\ main \in {"scanning", "reap", "reaping"}
  /\ fs[p].kind # "none"
  /\ ~\E c \in Universe : InDir(p, c)
  /\ fs' = [fs EXCEPT ![p] = Absent]
  /\ ext_left' = ext_left - 1
  /\ UNCHANGED <<config, stats, current_phase, scanning_end_time, empty_dirs,
                 active_directories, semaphores, stats_lock, main, scan, ftask,
                 reaper, io, last_io, wide, first_run, governor, reporter, root_path>>

\* the trees of the runs with other processes: directories and regular files
PlainTrees ==
  {f \in Trees : /\ \A p \in Universe : f[p].kind \in {"none", "dir", "file"}
                 /\ Cardinality(Entries(f)) < MaxEntries}

\* files are taken one at a time here: the interleavings of the file tasks of
\* one batch are those of Spec
InitEnv ==
  \E tree \in PlainTrees :
    /\ Constructed(tree, MaxExternal)
    /\ Exercised(tree, MaxExternal)
    /\ task_batch_size = 1
    /\ max_concurrency_scanning = 1

NextEnv ==
  \/ Next
  \/ \E p \in Universe \ {<<"r", "b", "g">>} : ExtCreate(p)
  \/ \E p \in Universe \ {<<"r", "b", "g">>} : ExtRemove(p)

SpecEnv == InitEnv /\ [][NextEnv]_vars

\* the reaper at work while other processes change the tree once more than
\* in SpecEnv: every coroutine that can go on does, the other processes do
\* as they please
InitReap ==
  \E tree \in PlainTrees :
    /\ Constructed(tree, MaxExternal + 1)
    /\ Exercised(tree, MaxExternal + 1)
    /\ \A p \in Universe : tree[p].kind = "file" => IsOld(tree[p].mtime)
    /\ remove_empty_dirs
    /\ task_batch_size = 1
    /\ max_concurrency_scanning = 1
    /\ max_concurrent_subdirs = 1
    /\ max_empty_dirs_to_delete = 0

SpecReap == InitReap /\ [][NextEnv]_vars /\ WF_vars(Next)

(***************************************************************************)
(* AsyncEFSPurger.__init__ and its deny list.  The root_path argument is   *)
(* a string: a "/" if it is absolute, then components joined by "/".       *)
(***************************************************************************)
MaxParts == 3

RECURSIVE Joined(_)
\* "/".join(parts)
Joined(parts) ==
  IF parts = <<>> THEN <<>>
  ELSE IF Len(parts) = 1 THEN parts[1]
  ELSE parts[1] \o <<"/">> \o Joined(Tail(parts))

\* the argument as the caller wrote it
RawStr(arg) == (IF arg.absolute THEN <<"/">> ELSE <<>>) \o Joined(arg.parts)

RECURSIVE LeadingSlashes(_)
LeadingSlashes(s) ==
  IF s # <<>> /\ Head(s) = "/" THEN 1 + LeadingSlashes(Tail(s)) ELSE 0

RECURSIVE SplitSlash(_)
\* s.split("/")
SplitSlash(s) ==
  IF \A k \in 1..Len(s) : s[k] # "/"
  THEN <<s>>
  ELSE LET k == CHOOSE i \in 1..Len(s) : s[i] = "/" /\ \A j \in 1..(i - 1) : s[j] # "/"
       IN  <<SubSeq(s, 1, k - 1)>> \o SplitSlash(SubSeq(s, k + 1, Len(s)))

IsNamed(c) == c # <<>> /\ c # Spelled.dot

\* Path(s) on POSIX: the root is "//" for exactly two leading slashes, "/"
\* for any other number, none for a relative path; empty and "." components
\* are dropped, ".." is kept
PurePath(s) ==
  LET n == LeadingSlashes(s)
  IN  [root |-> IF n = 0 THEN <<>> ELSE IF n = 2 THEN <<"/", "/">> ELSE <<"/">>,
       parts |-> SelectSeq(SplitSlash(SubSeq(s, n + 1, Len(s))), IsNamed)]

\* the working directory of the process
Cwd == <<Spelled.mnt>>

RECURSIVE Collapsed(_, _)
\* Path.resolve() where no component is a symbolic link: ".." leaves the
\* directory reached so far, and the root is its own parent
Collapsed(reached, parts) ==
  IF parts = <<>> THEN reached
  ELSE IF Head(parts) = Spelled.dotdot
  THEN Collapsed(IF reached = <<>> THEN <<>> ELSE SubSeq(reached, 1, Len(reached) - 1),
                 Tail(parts))
  ELSE Collapsed(Append(reached, Head(parts)), Tail(parts))

\* `if not root_path_obj.is_absolute(): root_path_obj = root_path_obj.resolve()`
root_path_obj(arg) ==
  LET given == PurePath(RawStr(arg))
  IN  IF given.root # <<>>
      THEN given
      ELSE [root |-> <<"/">>, parts |-> Collapsed(Cwd, given.parts)]

\* str(root_path_obj)
root_str(arg) == root_path_obj(arg).root \o Joined(root_path_obj(arg).parts)

\* "/" + "/".join(parts), a literal of the deny list
Literal(parts) == <<"/">> \o Joined(parts)

dangerous_paths ==
  {Literal(<<Spelled.proc>>), Literal(<<Spelled.sys>>), Literal(<<Spelled.dev>>),
   Literal(<<Spelled.run>>), Literal(<<Spelled.var, Spelled.run>>),
   Literal(<<Spelled.boot>>), Literal(<<Spelled.bin>>), Literal(<<Spelled.sbin>>),
   Literal(<<Spelled.lib>>), Literal(<<Spelled.lib64>>),
   Literal(<<Spelled.usr, Spelled.bin>>), Literal(<<Spelled.usr, Spelled.sbin>>),
   Literal(<<Spelled.usr, Spelled.lib>>), Literal(<<Spelled.etc>>)}

\* str.startswith
StartsWith(s, prefix) ==
  Len(s) >= Len(prefix) /\ SubSeq(s, 1, Len(prefix)) = prefix

\* the test without the separator: any path that begins like the entry
IsInsidePrefix(s, dangerous) == StartsWith(s, dangerous)

\* `root_str == dangerous or root_str.startswith(dangerous + "/")`
IsInside(s, dangerous) == s = dangerous \/ StartsWith(s, dangerous \o <<"/">>)

\* the loop over dangerous_paths raises ValueError
Refuses(arg) == \E dangerous \in dangerous_paths : IsInside(root_str(arg), dangerous)

\* the components a caller may write
Components ==
  {Spelled[k] : k \in DOMAIN Spelled \ {"mnt"}}

Arguments ==
  [absolute : BOOLEAN,
   parts : UNION {[1..n -> Components] : n \in 0..MaxParts}]

\* before the constructor runs: the fields it would set, and nothing started
InitDeny ==
  /\ Configured
  /\ dry_run
  /\ ~remove_empty_dirs
  /\ max_concurrent_subdirs = 1
  /\ task_batch_size = 1
  /\ max_concurrency_scanning = 1
  /\ max_concurrency_deletion = 1
  /\ max_empty_dirs_to_delete = 0
  /\ fs = [p \in Nodes |-> IF p = Root THEN DirNode ELSE Absent]
  /\ stats = ZeroStats
  /\ current_phase = "initializing"
  /\ scanning_end_time = "None"
  /\ empty_dirs = {}
  /\ active_directories = {}
  /\ scanning_semaphore = max_concurrency_scanning
  /\ deletion_semaphore = max_concurrency_deletion
  /\ subdir_semaphore = max_concurrent_subdirs
  /\ stats_lock = Free
  /\ main = "new"
  /\ scan = [d \in Nodes |-> NoFrame]
  /\ ftask = [p \in Universe |-> NoTask]
  /\ reaper = NoReaper
  /\ io = [p \in Nodes |-> NoCalls]
  /\ last_io = NoIo
  /\ ext_left = 0
  /\ wide = NoWide
  /\ first_run = NoRun
  /\ governor = NoGovernor
  /\ reporter = NoReporter
  /\ root_path \in Arguments

\* AsyncEFSPurger(root_path, ...): ValueError, or the purger
Construct ==
  /\ main = "new"
  /\ main' = IF Refuses(root_path) THEN "rejected" ELSE "init"
  /\ UNCHANGED <<fs, config, stats, current_phase, scanning_end_time,
                 empty_dirs, active_directories, semaphores, stats_lock, scan,
                 ftask, reaper, io, last_io, ext_left, wide, first_run,
                 governor, reporter, root_path>>

NextDeny == Construct

SpecDeny == InitDeny /\ [][NextDeny]_vars

(***************************************************************************)
(* The run with and without a memory limit, on trees of directories and    *)
(* regular files.                                                          *)
(***************************************************************************)
MaxMemoryLimit == 1

InitMemory ==
  \E tree \in PlainTrees :
    /\ Parameters
    /\ memory_limit_mb \in 0..MaxMemoryLimit
    /\ Fresh(tree, 0)
    /\ wide = NoWide
    /\ Exercised(tree, 0)

NextMemory ==
  \/ Next
  \/ \E d \in Nodes : MemCheck(d)
  \/ \E d \in Nodes : MemCount(d)
  \/ \E d \in Nodes : MemWake(d)

SpecMemory == InitMemory /\ [][NextMemory]_vars

\* two directories below the root, each holding a file or a directory or
\* nothing, so that two dispatched scans meet in check_memory_pressure
PressureTrees ==
  {f \in [Nodes -> {Absent, DirNode} \cup FileNodes] :
     /\ IsTree(f)
     /\ f[<<"r", "a">>] = DirNode
     /\ f[<<"r", "b">>] = DirNode
     /\ f[<<"r", "a", "c">>] = Absent}

\* check_memory_pressure raises in scan_directory(d): the memory sample
\* cannot be taken.  Inside _process_file_batch the buffer is cleared on the
\* way out; an OSError out of a drain made in the entry loop is caught there
\* and the loop goes on; anything else ends the scan of d in its handler
MemFail(d) ==
  /\ scan[d].pc = "pressure"
  /\ governor.lock = Free
  /\ stats_lock = Free
  /\ stats' = Bump(stats, "errors", 1)
  /\ \E err \in {"OSError", "Error"} :
       IF /\ err = "OSError"
          /\ Len(scan[d].file_task_buffer) >= task_batch_size
       THEN /\ scan' = [scan EXCEPT ![d].pc = "loop",
                                    ![d].file_task_buffer = Cleared(@)]
            /\ UNCHANGED <<active_directories, subdir_semaphore>>
       ELSE /\ scan' = Returned(scan, d)
            /\ active_directories' = Discarded(active_directories, d)
            /\ subdir_semaphore' = Released(d)
  /\ UNCHANGED <<fs, config, current_phase, scanning_end_time, empty_dirs,
                 scanning_semaphore, deletion_semaphore, stats_lock, main,
                 ftask, reaper, io, last_io, ext_left, wide, first_run,
                 governor, reporter, root_path>>

NextDrain ==
  \/ NextMemory
  \/ \E d \in Nodes : MemFail(d)

\* the run under a memory limit whose samples may fail
SpecDrain == InitMemory /\ [][NextDrain]_vars

\* the run with a limit set, every coroutine that can go on going on and
\* every pause ending
InitPressure ==
  \E tree \in PressureTrees :
    /\ Parameters
    /\ memory_limit_mb \in 1..MaxMemoryLimit
    /\ Fresh(tree, 0)
    /\ wide = NoWide
    /\ Exercised(tree, 0)
    /\ \A p \in Universe : tree[p].kind = "file" => IsOld(tree[p].mtime)
    /\ ~dry_run
    /\ remove_empty_dirs
    /\ max_empty_dirs_to_delete = 0
    /\ max_concurrent_subdirs = 2

SpecPressure == InitPressure /\ [][NextMemory]_vars /\ WF_vars(NextMemory)

(***************************************************************************)
(* The run on a static tree, every enabled step eventually taken: the      *)
(* event loop runs every ready coroutine and every system call returns.    *)
(***************************************************************************)
FairSpec == Spec /\ WF_vars(Next)

(***************************************************************************)
(* The run on a static tree some of whose nodes the file system refuses:   *)
(* stat or unlink of a file, scandir of a directory, fail with             *)
(* PermissionError or with another OSError every time they are tried.      *)
(***************************************************************************)
Errs == {"PermissionError", "OSError"}

\* the refusal on a node: a directory refuses scandir, a file the call `op`
Refusal(node, op, err) ==
  [op |-> IF node.kind = "dir" THEN "scandir" ELSE op, err |-> err]

\* the tree with the nodes of `sites` refusing, all with the same error
Refusing(tree, sites, ops, err) ==
  [p \in Nodes |->
     IF p \in sites THEN [tree[p] EXCEPT !.fault = Refusal(tree[p], ops[p], err)]
     ELSE tree[p]]

\* trees of directories and regular files, old or new
FaultTrees ==
  {f \in Trees : \A p \in Universe : /\ f[p].kind \in {"none", "dir", "file"}
                                      /\ f[p].mtime # cutoff_time}

InitFaults ==
  /\ Configured
  /\ wide = NoWide
  /\ max_concurrent_subdirs = 1
  /\ max_concurrency_deletion = 1
  /\ max_empty_dirs_to_delete = 0
  /\ \E tree \in FaultTrees :
       /\ Exercised(tree, 0)
       /\ \E sites \in SUBSET (Entries(tree) \cup {Root}) :
            /\ Cardinality(sites) \in 1..MaxFaults
            /\ \E err \in Errs, ops \in [sites -> {"stat", "unlink"}] :
                 Fresh(Refusing(tree, sites, ops, err), 0)

SpecFaults == InitFaults /\ [][Next]_vars

(***************************************************************************)
(* The run on a file system one of whose calls never returns, watched by   *)
(* the progress reporter.  The call runs in an executor thread: the        *)
(* coroutine that awaits it stays where it is, with what it holds, and the *)
(* event loop runs the others.                                             *)
(***************************************************************************)
\* scan_directory(d) up to a scandir that never returns: d is registered and
\* counted
ScanEnterHung(d) ==
  /\ scan[d].pc = "enter"
  /\ stats_lock = Free
  /\ Hangs(d, "scandir")
  /\ scan' = [scan EXCEPT ![d].pc = "hung"]
  /\ active_directories' = active_directories \cup {d}
  /\ stats' = Bump(stats, "dirs_scanned", 1)
  /\ UNCHANGED <<fs, config, current_phase, scanning_end_time, empty_dirs,
                 semaphores, stats_lock, main, ftask, reaper, io, last_io,
                 ext_left, wide, first_run, governor, reporter, root_path>>

\* process_file(p) up to a stat that never returns, inside the scanning
\* semaphore
PFStatHung(p) ==
  /\ ftask[p].pc = "start"
  /\ Acquirable(scanning_semaphore)
  /\ Hangs(p, "stat")
  /\ scanning_semaphore' = scanning_semaphore - 1
  /\ ftask' = [ftask EXCEPT ![p].pc = "hung"]
  /\ UNCHANGED <<fs, config, stats, current_phase, scanning_end_time,
                 empty_dirs, active_directories, deletion_semaphore,
                 subdir_semaphore, stats_lock, main, scan, reaper, io,
                 last_io, ext_left, wide, first_run, governor, reporter,
                 root_path>>

\* consecutive ticks without progress the model follows the reporter for
MaxStuck == 2

\* the reporter outlives purge()
ReportingAlways == TRUE

\* the reporter task exists from create_task to progress_task.cancel()
Reporting == main \in {"scanning", "reap", "reaping"}

\* the scanning counters are compared whatever the phase is
StalledAnyPhase ==
  /\ stats.files_scanned = reporter.last_files_scanned
  /\ stats.dirs_scanned = reporter.last_dirs_scanned

\* the counters of the previous tick are the counters now
Stalled ==
  IF current_phase = "removing_empty_dirs"
  THEN stats.empty_dirs_deleted = reporter.last_empty_dirs_deleted
  ELSE /\ stats.files_scanned = reporter.last_files_scanned
       /\ stats.dirs_scanned = reporter.last_dirs_scanned

\* one turn of `while True` in _background_progress_reporter: the sleep is
\* over, the progress line is written under stats_lock, then the stuck
\* detection
ReportTick ==
  /\ Reporting
  /\ stats_lock = Free
  /\ reporter.stuck_detection_count < MaxStuck
  /\ LET count == IF Stalled THEN reporter.stuck_detection_count + 1 ELSE 0
     IN  reporter' =
           [last_files_scanned |->
              IF current_phase = "removing_empty_dirs"
              THEN reporter.last_files_scanned ELSE stats.files_scanned,
            last_dirs_scanned |->
              IF current_phase = "removing_empty_dirs"
              THEN reporter.last_dirs_scanned ELSE stats.dirs_scanned,
            last_empty_dirs_deleted |->
              IF current_phase = "removing_empty_dirs"
              THEN stats.empty_dirs_deleted ELSE reporter.last_empty_dirs_deleted,
            stuck_detection_count |-> count,
            warnings |-> IF Stalled /\ count >= 2
                         THEN reporter.warnings + 1 ELSE reporter.warnings,
            last_phase |-> current_phase]
  /\ UNCHANGED <<fs, config, stats, current_phase, scanning_end_time,
                 empty_dirs, active_directories, semaphores, stats_lock, main,
                 scan, ftask, reaper, io, last_io, ext_left, wide, first_run,
                 governor, root_path>>

\* purge() left by an exception: a cancellation delivered to purge() while
\* the root's dispatcher waits in asyncio.wait, or an error the reaper does
\* not catch.  The coroutine purge() was awaiting is unwound (the finally of
\* scan_directory deregisters the root), the finally of purge() cancels the
\* reporter and awaits it; the tasks the dispatcher created are not touched
Abort ==
  /\ Reporting
  /\ main' = "aborted"
  /\ CASE main = "scanning" ->
            /\ scan[Root].pc = "disp_wait"
            /\ scan' = Returned(scan, Root)
            /\ active_directories' = Discarded(active_directories, Root)
            /\ UNCHANGED reaper
       [] main = "reaping" ->
            /\ reaper' = [reaper EXCEPT !.pc = "raised"]
            /\ UNCHANGED <<scan, active_directories>>
       [] OTHER -> UNCHANGED <<scan, active_directories, reaper>>
  /\ UNCHANGED <<fs, config, stats, current_phase, scanning_end_time,
                 empty_dirs, semaphores, stats_lock, ftask, io, last_io,
                 ext_left, wide, first_run, governor, reporter, root_path>>

\* a run watched by the reporter, on trees of directories and old regular
\* files, files taken one at a time
InitReport ==
  \E tree \in PlainTrees :
    /\ Constructed(tree, 0)
    /\ Exercised(tree, 0)
    /\ \A p \in Universe : tree[p].kind = "file" => IsOld(tree[p].mtime)
    /\ task_batch_size = 1
    /\ max_concurrency_scanning = 1
    /\ max_empty_dirs_to_delete = 0

NextReport ==
  \/ Next
  \/ ReportTick
  \/ Abort

SpecReport == InitReport /\ [][NextReport]_vars

\* the calls that may hang on a node of a kind
HangSites(kind) ==
  IF kind = "dir" THEN {"scandir", "recheck", "rescan", "rmdir"}
  ELSE {"stat", "unlink"}

\* the tree with the call `site` on p never returning
Hanging(tree, p, site) ==
  [q \in Nodes |->
     IF q = p THEN [tree[q] EXCEPT !.fault = [op |-> site, err |-> "hang"]]
     ELSE tree[q]]

\* a live run with reaping on a tree of directories and old files, one call
\* of which hangs; the root may hold a single directory and still be given
\* two dispatcher slots
InitHang ==
  /\ Parameters
  /\ memory_limit_mb = 0
  /\ ~dry_run
  /\ remove_empty_dirs
  /\ max_empty_dirs_to_delete = 0
  /\ task_batch_size = 1
  /\ max_concurrency_scanning = 1
  /\ max_concurrency_deletion = 1
  /\ wide = NoWide
  /\ \E tree \in FaultTrees :
       /\ \A p \in Universe : tree[p].kind = "file" => IsOld(tree[p].mtime)
       /\ \E p \in Entries(tree) :
            \E site \in HangSites(tree[p].kind) :
              Fresh(Hanging(tree, p, site), 0)

NextHang ==
  \/ Next
  \/ \E d \in Nodes : ScanEnterHung(d)
  \/ \E p \in Universe : PFStatHung(p)
  \/ ReportTick

\* every coroutine that can go on does, the reporter's sleep ends, and every
\* system call but the hanging one returns
SpecHang == InitHang /\ [][NextHang]_vars /\ WF_vars(NextHang)

(***************************************************************************)
(* Two runs, one after the other, on a tree nothing else touches: when the *)
(* first has ended the command is started again with the same parameters,  *)
(* live, on the tree the first run left.  A new AsyncEFSPurger is built,   *)
(* so every field starts over; the first run's mode and final counters are *)
(* kept aside for comparison.                                              *)
(***************************************************************************)
Rerun ==
  /\ main = "done"
  /\ ~first_run.done
  /\ first_run' = [done |-> TRUE, dry_run |-> dry_run, stats |-> stats]
  /\ dry_run' = FALSE
  /\ stats' = ZeroStats
  /\ current_phase' = "initializing"
  /\ scanning_end_time' = "None"
  /\ empty_dirs' = {}
  /\ active_directories' = {}
  /\ scanning_semaphore' = max_concurrency_scanning
  /\ deletion_semaphore' = max_concurrency_deletion
  /\ subdir_semaphore' = max_concurrent_subdirs
  /\ stats_lock' = Free
  /\ main' = "init"
  /\ scan' = [d \in Nodes |-> NoFrame]
  /\ ftask' = [p \in Universe |-> NoTask]
  /\ reaper' = NoReaper
  /\ io' = [p \in Nodes |-> NoCalls]
  /\ last_io' = NoIo
  /\ governor' = NoGovernor
  /\ reporter' = NoReporter
  /\ UNCHANGED <<fs, cutoff_time, remove_empty_dirs, max_concurrent_subdirs,
                 task_batch_size, max_concurrency_scanning,
                 max_concurrency_deletion, max_empty_dirs_to_delete,
                 memory_limit_mb, ext_left, wide, root_path>>

NextTwice ==
  \/ Next
  \/ Rerun

SpecTwice == Init /\ [][NextTwice]_vars

(***************************************************************************)
(* A live run on a root that holds only leaf subdirectories, wide.total of *)
(* them, each holding wide.files old regular files (none or one).  The     *)
(* subdirectories are counted, not named: pending in the dispatcher's      *)
(* list, created as tasks, running inside the subdirectory semaphore,      *)
(* finished, members of self.empty_dirs, candidates left to the reaper.    *)
(***************************************************************************)
\* a listing the dispatcher handles in a few turns
IsShort(n) == n <= MaxSubdirCap + 1

\* lengths of the root's listing: short ones, and ones that outlast the
\* emergency ceiling even when a single scan finishes per turn
WideTotals ==
  {n \in 0..(MaxSubdirCap + 1) : IsShort(n)}
    \cup {MaxIterations + max_concurrent_subdirs + n : n \in 1..ExtraSubdirs}

InitWide ==
  /\ cutoff_time = 1
  /\ dry_run = FALSE
  /\ remove_empty_dirs \in BOOLEAN
  /\ max_concurrent_subdirs \in 1..MaxSubdirCap
  /\ task_batch_size = 1
  /\ max_concurrency_scanning = 1
  /\ max_concurrency_deletion = 1
  /\ memory_limit_mb = 0
  /\ Fresh([p \in Nodes |-> IF p = Root THEN DirNode ELSE Absent], 0)
  /\ \E n \in WideTotals, f \in {0, 1} :
       /\ wide = [NoWide EXCEPT !.total = n, !.files = f]
       /\ max_empty_dirs_to_delete \in IF remove_empty_dirs /\ f = 0 THEN {0, n} ELSE {0}
       /\ ~IsShort(n) => (remove_empty_dirs <=> f = 0)

\* purge() up to the call of scan_directory(root)
WidePurgeStart ==
  /\ main = "init"
  /\ wide.pc = "idle"
  /\ main' = "scanning"
  /\ current_phase' = "scanning"
  /\ wide' = [wide EXCEPT !.pc = "enter"]
  /\ UNCHANGED <<fs, config, stats, scanning_end_time, empty_dirs,
                 active_directories, semaphores, stats_lock, scan, ftask,
                 reaper, io, last_io, ext_left, first_run, governor, reporter, root_path>>

\* scan_directory(root): dirs_scanned, the listing, every entry a directory,
\* and the first turn of the dispatcher
WideRootEnter ==
  /\ wide.pc = "enter"
  /\ stats_lock = Free
  /\ stats' = Bump(stats, "dirs_scanned", 1)
  /\ IF wide.total = 0
     THEN wide' = [wide EXCEPT !.pc = "returned"]
     ELSE /\ NotHoldingSubdirSemaphore
          /\ LET n == TopUp(0, wide.total)
             IN  wide' = [wide EXCEPT !.pc = "disp_wait", !.iterations = 1,
                                      !.created = n, !.remaining = wide.total - n]
  /\ UNCHANGED <<fs, config, current_phase, scanning_end_time, empty_dirs,
                 active_directories, semaphores, stats_lock, main, scan, ftask,
                 reaper, io, last_io, ext_left, first_run, governor, reporter, root_path>>

\* scan_with_semaphore: `async with self.subdir_semaphore`
WideAcquire ==
  /\ wide.created > 0
  /\ subdir_semaphore > 0
  /\ subdir_semaphore' = subdir_semaphore - 1
  /\ wide' = [wide EXCEPT !.created = @ - 1, !.running = @ + 1]
  /\ UNCHANGED <<fs, config, stats, current_phase, scanning_end_time,
                 empty_dirs, active_directories, scanning_semaphore,
                 deletion_semaphore, stats_lock, main, scan, ftask, reaper, io,
                 last_io, ext_left, first_run, governor, reporter, root_path>>

\* the counters after process_file has purged the wide.files files of a leaf
LeafPurged(s) ==
  Bump(Bump(Bump(Bump(s, "files_scanned", wide.files),
                 "files_to_purge", wide.files),
            "files_purged", wide.files), "bytes_freed", 2 * wide.files)

\* scan_directory(leaf) with its process_file and its emptiness check, to the
\* release of the subdirectory semaphore.  On a long listing the scans take
\* long enough for the waiting dispatcher to wake between two of them.
WideLeaf ==
  /\ wide.running > 0
  /\ (~IsShort(wide.total) /\ wide.pc = "disp_wait") => wide.finished = 0
  /\ stats_lock = Free
  /\ stats' = LeafPurged(Bump(stats, "dirs_scanned", 1))
  /\ subdir_semaphore' = subdir_semaphore + 1
  /\ wide' = [wide EXCEPT !.running = @ - 1, !.finished = @ + 1,
                          !.unlinked = @ + wide.files,
                          !.empty_dirs = IF ReapingEnabled THEN @ + 1 ELSE @]
  /\ UNCHANGED <<fs, config, current_phase, scanning_end_time, empty_dirs,
                 active_directories, scanning_semaphore, deletion_semaphore,
                 stats_lock, main, scan, ftask, reaper, io, last_io, ext_left, first_run, governor, reporter, root_path>>

\* the dispatcher wakes: the finished tasks leave the in-flight list, then the
\* emergency test, the loop test and the next top-up
WideWake ==
  /\ wide.pc = "disp_wait"
  /\ wide.finished > 0
  /\ LET active == wide.created + wide.running
     IN  wide' =
           IF LeavesLoop(wide.iterations, active, wide.remaining)
           THEN [wide EXCEPT !.pc = "returned", !.finished = 0]
           ELSE LET n == TopUp(active, wide.remaining)
                IN  [wide EXCEPT !.finished = 0, !.iterations = @ + 1,
                                 !.created = @ + n, !.remaining = @ - n]
  /\ UNCHANGED <<fs, config, stats, current_phase, scanning_end_time,
                 empty_dirs, active_directories, semaphores, stats_lock, main,
                 scan, ftask, reaper, io, last_io, ext_left, first_run, governor, reporter, root_path>>

\* scan_directory(root) returns to purge()
WideFinished ==
  /\ main = "scanning"
  /\ wide.pc = "returned"
  /\ scanning_end_time' = "set"
  /\ main' = IF ReapingEnabled THEN "reap" ELSE "done"
  /\ UNCHANGED <<fs, config, stats, current_phase, empty_dirs,
                 active_directories, semaphores, stats_lock, scan, ftask,
                 reaper, io, last_io, ext_left, wide, first_run, governor, reporter, root_path>>

\* _remove_empty_directories: the return on an empty set, or the copy of
\* self.empty_dirs that pass 1 works through
WideReapStart ==
  /\ main = "reap"
  /\ IF wide.empty_dirs = 0
     THEN /\ main' = "done"
          /\ UNCHANGED <<current_phase, wide>>
     ELSE /\ stats_lock = Free
          /\ main' = "reaping"
          /\ current_phase' = "removing_empty_dirs"
          /\ wide' = [wide EXCEPT !.candidates = wide.empty_dirs]
  /\ UNCHANGED <<fs, config, stats, scanning_end_time, empty_dirs,
                 active_directories, semaphores, stats_lock, scan, ftask,
                 reaper, io, last_io, ext_left, first_run, governor, reporter, root_path>>

\* pass 1, one candidate: the rate limit, the re-scan (empty), the rmdir; its
\* parent is the root and is not examined
WideReap ==
  /\ main = "reaping"
  /\ wide.candidates > 0
  /\ stats_lock = Free
  /\ IF RateLimitReached
     THEN /\ wide' = [wide EXCEPT !.candidates = 0]
          /\ UNCHANGED stats
     ELSE /\ wide' = [wide EXCEPT !.candidates = @ - 1, !.rmdirs = @ + 1]
          /\ stats' = Bump(Bump(stats, "empty_dirs_to_delete", 1),
                           "empty_dirs_deleted", 1)
  /\ UNCHANGED <<fs, config, current_phase, scanning_end_time, empty_dirs,
                 active_directories, semaphores, stats_lock, main, scan, ftask,
                 reaper, io, last_io, ext_left, first_run, governor, reporter, root_path>>

\* no parent became empty: no cascade, _remove_empty_directories returns
WideReapEnd ==
  /\ main = "reaping"
  /\ wide.candidates = 0
  /\ stats_lock = Free
  /\ main' = "done"
  /\ UNCHANGED <<fs, config, stats, current_phase, scanning_end_time,
                 empty_dirs, active_directories, semaphores, stats_lock, scan,
                 ftask, reaper, io, last_io, ext_left, wide, first_run, governor, reporter, root_path>>

NextWide ==
  \/ WidePurgeStart
  \/ WideRootEnter
  \/ WideAcquire
  \/ WideLeaf
  \/ WideWake
  \/ WideFinished
  \/ WideReapStart
  \/ WideReap
  \/ WideReapEnd

SpecWide == InitWide /\ [][NextWide]_vars

(***************************************************************************)
(* Properties.                                                             *)
(***************************************************************************)
\* purge() has returned and no task it left behind can still run
WideEnded == main = "done" /\ wide.created = 0 /\ wide.running = 0

\* C1 (third sentence): in a live run on a static tree without I/O errors,
\* once the run has ended every regular file older than the cutoff has been
\* unlinked, exactly once: here each of the wide.total subdirectories holds
\* wide.files such files.
C1_EveryOldFileUnlinked ==
  WideEnded => wide.unlinked = wide.total * wide.files

\* C8: on a static tree without I/O errors, when the scan phase ends
\* dirs_scanned is the number of directories (root included) and files_scanned
\* the number of regular files, whatever the number of subdirectories.
C8_ScanCountsTree ==
  scanning_end_time = "set" =>
    /\ stats.dirs_scanned = wide.total + 1
    /\ stats.files_scanned = wide.total * wide.files

\* C9: when the dispatcher returns its pending list is empty and no scan task
\* it created is waiting or running, whatever the length of its input.
C9_DispatcherDrained ==
  wide.pc = "returned" =>
    /\ wide.remaining = 0
    /\ wide.created = 0
    /\ wide.running = 0

\* C2: no rmdir is issued on the root, the root is in no set of candidates,
\* and the root exists, in every state of every run, other processes changing
\* the tree or not.
C2_RootNeverRemoved ==
  /\ io[Root].rmdir = 0
  /\ Root \notin empty_dirs
  /\ Root \notin reaper.new_empty_parents
  /\ Root \notin Range(reaper.sorted_dirs)
  /\ Exists(Root)

\* a live run has ended after another process changed the tree, the reaper
\* removed a directory, and the root is left empty
C2_Witness ==
  /\ main = "done"
  /\ ~dry_run
  /\ ext_left < MaxExternal
  /\ stats.empty_dirs_deleted > 0
  /\ Len(ListDir(Root)) = 0

Ended == main = "done"

Count(kind) == Cardinality({p \in Universe : KindOf(p) = kind})

\* C4: a symbolic link is never stat-ed, unlinked, listed, buffered as a file,
\* queued as a subdirectory or scanned, whatever it points to; the links
\* account for symlinks_skipped, one each, and for no other counter.
C4_SymlinksOnlyCounted ==
  /\ \A p \in Universe :
       IsLink(p) =>
         /\ io[p] = NoCalls
         /\ ftask[p] = NoTask
         /\ scan[p] = NoFrame
         /\ \A d \in Nodes :
              /\ p \notin Range(scan[d].file_task_buffer)
              /\ p \notin Range(scan[d].subdirs)
              /\ p \notin Range(scan[d].remaining_subdirs)
              /\ p \notin scan[d].active_tasks
  /\ stats.symlinks_skipped <= Count("symlink")
  /\ Ended =>
       /\ stats.symlinks_skipped = Count("symlink")
       /\ stats.special_files_skipped = Count("special")
       /\ stats.files_scanned = Count("file") + stats.files_purged
       /\ stats.dirs_scanned = Count("dir") + 1 + stats.empty_dirs_deleted
       /\ stats.errors = 0

\* a run has ended on a tree with a link to a regular file older than the
\* cutoff: the link was skipped, the file itself scanned
C4_Witness ==
  /\ Ended
  /\ \E p \in Universe :
       /\ IsLink(p)
       /\ KindOf(Resolve(p)) = "file"
       /\ IsOld(NodeAt(Resolve(p)).mtime)
  /\ stats.symlinks_skipped = 1
  /\ stats.files_scanned = 1

\* the step is the reaper's re-scan of its current candidate
IsRescan ==
  /\ reaper.pc = "pick"
  /\ reaper.idx <= Len(reaper.sorted_dirs)
  /\ io'[reaper.sorted_dirs[reaper.idx]].scandir
       # io[reaper.sorted_dirs[reaper.idx]].scandir

C6_NoReapingWhenOff ==
  ~remove_empty_dirs =>
    /\ empty_dirs = {}
    /\ reaper = NoReaper
    /\ main \notin {"reap", "reaping"}
    /\ current_phase # "removing_empty_dirs"
    /\ \A p \in Nodes : io[p].rmdir = 0
    /\ stats.empty_dirs_to_delete = 0
    /\ stats.empty_dirs_deleted = 0

\* a run with the flag off has ended and left an empty directory behind
C6_Witness ==
  /\ ~remove_empty_dirs
  /\ main = "done"
  /\ \E p \in Universe : KindOf(p) = "dir" /\ Len(ListDir(p)) = 0

StatKeys == DOMAIN ZeroStats

\* C7: in every state files_purged <= files_to_purge <= files_scanned and
\* empty_dirs_deleted <= empty_dirs_to_delete, and no step lowers a counter.
C7_CountersOrdered ==
  /\ [](/\ stats.files_purged <= stats.files_to_purge
        /\ stats.files_to_purge <= stats.files_scanned
        /\ stats.empty_dirs_deleted <= stats.empty_dirs_to_delete)
  /\ [][\A k \in StatKeys : stats'[k] >= stats[k]]_vars

\* two file tasks in flight: one has counted its file as scanned only, the
\* other as to purge and not yet as purged
C7_Witness ==
  /\ \E p, q \in Universe :
       /\ ftask[p].pc = "statted"
       /\ ftask[q].pc = "deleting"
  /\ stats.files_purged < stats.files_to_purge
  /\ stats.files_to_purge < stats.files_scanned

\* C10: the scan phase ends, for every tree and every max_concurrent_subdirs,
\* when every enabled step is eventually taken.
C10_ScanTerminates == <>(scanning_end_time = "set")

\* with max_concurrent_subdirs = 1, a dispatched scanner holds the only slot
\* of the semaphore while it scans its own subdirectories
C10_Witness ==
  /\ max_concurrent_subdirs = 1
  /\ subdir_semaphore = 0
  /\ \E d \in Universe : scan[d].dispatched /\ scan[d].pc = "seq_wait"

\* the scan tasks the dispatcher has created that have not finished
InFlight == {d \in Nodes : scan[d].dispatched}

\* C11: the scan tasks created by the dispatcher and not yet finished are at
\* most max_concurrent_subdirs in every state; the paths beyond that wait in
\* the pending list, and only one invocation (the root's) ever dispatches.
C11_TasksWithinCap ==
  /\ Cardinality(InFlight) <= max_concurrent_subdirs
  /\ \A d \in Nodes :
       /\ scan[d].active_tasks \subseteq InFlight \cup {s \in Nodes : scan[s].pc = "done"}
       /\ scan[d].pc = "disp_wait" => d = Root

\* the cap is reached while a path is still pending
C11_Witness ==
  /\ Cardinality(InFlight) = max_concurrent_subdirs
  /\ scan[Root].pc = "disp_wait"
  /\ scan[Root].remaining_subdirs # <<>>

\* C12: once the reaper has taken a step (here: has removed a candidate), no
\* scan task of the run is waiting or running, and scanning_end_time is set.
C12_ReaperAfterScanners ==
  wide.rmdirs > 0 =>
    /\ wide.created = 0
    /\ wide.running = 0
    /\ scanning_end_time = "set"

\* C14: a live run with remove_empty_dirs on and no rate limit, on a static
\* root of wide.total empty subdirectories, ends with every one of them
\* removed and counted in empty_dirs_deleted.
C14_EveryEmptyDirRemoved ==
  (WideEnded /\ remove_empty_dirs /\ max_empty_dirs_to_delete = 0
     /\ wide.files = 0) =>
    /\ wide.rmdirs = wide.total
    /\ stats.empty_dirs_deleted = wide.total

\* C15: with max_empty_dirs_to_delete = k > 0, empty_dirs_to_delete never
\* exceeds k, and a live run on a static root that offers k or more empty
\* subdirectories ends with empty_dirs_to_delete = empty_dirs_deleted = k and
\* k directories removed.
C15_RateLimitExact ==
  (remove_empty_dirs /\ max_empty_dirs_to_delete > 0) =>
    /\ stats.empty_dirs_to_delete <= max_empty_dirs_to_delete
    /\ (WideEnded /\ wide.files = 0 /\ wide.total >= max_empty_dirs_to_delete) =>
         /\ stats.empty_dirs_to_delete = max_empty_dirs_to_delete
         /\ stats.empty_dirs_deleted = max_empty_dirs_to_delete
         /\ wide.rmdirs = max_empty_dirs_to_delete

\* path c lies below directory d
IsUnder(c, d) == Len(c) > Len(d) /\ SubSeq(c, 1, Len(d)) = d

\* the directories this run has made candidates so far
Candidates == empty_dirs \cup Range(reaper.sorted_dirs)

\* C13: the list of a pass is in non-increasing component count, and when the
\* reaper re-scans a candidate every candidate below it has been processed.
C13_DeepestFirst ==
  /\ [](IsDeepestFirst(reaper.sorted_dirs))
  /\ [][IsRescan =>
          \A c \in Candidates :
            IsUnder(c, reaper.sorted_dirs[reaper.idx]) =>
              c \in reaper.processed_dirs]_vars

\* the reaper is about to remove a candidate whose descendant, a candidate of
\* the same pass, it has processed
C13_Witness ==
  /\ reaper.pc = "rmdir"
  /\ \E c \in Range(reaper.sorted_dirs) :
       /\ IsUnder(c, reaper.sorted_dirs[reaper.idx])
       /\ c \in reaper.processed_dirs

\* the calls of one kind issued so far, over the first n paths of the tree
RECURSIVE CallsUpTo(_, _)
CallsUpTo(op, n) ==
  IF n = 0 THEN io[Root][op] ELSE io[Order[n]][op] + CallsUpTo(op, n - 1)

CallsOf(op) == CallsUpTo(op, Len(Order))

\* C16: with max_empty_dirs_to_delete = k > 0 the rmdir calls of a run, the
\* failed ones counted, never exceed k.
C16_AttemptsWithinLimit ==
  max_empty_dirs_to_delete > 0 => CallsOf("rmdir") <= max_empty_dirs_to_delete

\* the second of two runs has ended
EndedAgain == first_run.done /\ main = "done"

\* C17: on the same static tree, with the same cutoff and the same parameters
\* apart from dry_run, the dry run ends with the files_to_purge and the
\* empty_dirs_to_delete of the live run.
C17_DryRunCountsAsLive ==
  (EndedAgain /\ first_run.dry_run) =>
    /\ first_run.stats.files_to_purge = stats.files_to_purge
    /\ first_run.stats.empty_dirs_to_delete = stats.empty_dirs_to_delete

\* C18: after a live run on a tree nothing else modifies, a second run with
\* the same parameters finds nothing to purge, nothing to reap, and issues no
\* unlink and no rmdir.
C18_SecondRunIdle ==
  (EndedAgain /\ ~first_run.dry_run) =>
    /\ stats.files_to_purge = 0
    /\ stats.empty_dirs_to_delete = 0
    /\ CallsOf("unlink") = 0
    /\ CallsOf("rmdir") = 0

\* every directory above p can be listed
Listed(p) == \A n \in 1..(Len(p) - 1) : fs[SubSeq(p, 1, n)].fault.op # "scandir"

\* the run has met the refusal of node p
Refused(p) ==
  /\ Exists(p)
  /\ Listed(p)
  /\ \/ fs[p].fault.op \in {"stat", "scandir"}
     \/ fs[p].fault.op = "unlink" /\ Live /\ IsOld(fs[p].mtime)

\* C19: a failing stat or unlink ends process_file normally with errors one
\* higher, the other files of the batch are still processed and the
\* subdirectories still scanned; a failing scan of a directory ends
\* scan_directory normally with errors one higher, and its siblings and
\* ancestors are scanned all the same.
C19_ErrorsAbsorbed ==
  Ended =>
    /\ \A p \in Universe : ftask[p].pc \in {"idle", "done"}
    /\ \A d \in Nodes : scan[d].pc \in {"idle", "done"}
    /\ stats.errors = Cardinality({p \in Nodes : Refused(p)})
    /\ \A p \in Universe :
         (fs[p].kind = "file" /\ Listed(p)) =>
           /\ io[p].stat = 1
           /\ (Live /\ IsOld(fs[p].mtime) /\ fs[p].fault.op # "stat") =>
                io[p].unlink = 1
    /\ \A d \in Nodes : (fs[d].kind = "dir" /\ Listed(d)) => io[d].scandir >= 1

C19_Witness ==
  /\ Ended
  /\ task_batch_size = 2
  /\ stats.errors = 1
  /\ \E p, q \in Universe :
       /\ Parent(p) = Parent(q)
       /\ fs[p].kind = "file"
       /\ fs[p].fault = [op |-> "stat", err |-> "PermissionError"]
       /\ io[p].stat = 1
       /\ ~Exists(q)
       /\ io[q].unlink = 1

\* the step is a stat, an unlink or an rmdir of p, or the reaper's re-scan of
\* its candidate p
Handles(p) ==
  \/ io'[p].stat # io[p].stat
  \/ io'[p].unlink # io[p].unlink
  \/ io'[p].rmdir # io[p].rmdir
  \/ IsRescan /\ reaper.sorted_dirs[reaper.idx] = p

\* C20: a stat or an unlink of a file that has vanished, and a re-scan or an
\* rmdir of a candidate that has vanished, leave errors, files_purged,
\* bytes_freed and empty_dirs_deleted as they were and end the handling of
\* that target; the run still processes every file and every candidate left.
C20_VanishedIsSilent ==
  /\ [][\A p \in Universe :
          (~Exists(p) /\ Handles(p)) =>
            /\ stats'.errors = stats.errors
            /\ stats'.files_purged = stats.files_purged
            /\ stats'.bytes_freed = stats.bytes_freed
            /\ stats'.empty_dirs_deleted = stats.empty_dirs_deleted
            /\ fs' = fs
            /\ ftask[p].pc # "idle" => ftask'[p].pc = "done"
            /\ reaper.pc # "idle" =>
                 /\ reaper'.pc = "pick"
                 /\ reaper'.idx = reaper.idx + 1
                 /\ p \in reaper'.processed_dirs]_vars
  /\ [](Ended =>
          /\ \A p \in Universe :
               (fs[p].kind = "file" /\ IsOld(fs[p].mtime)) =>
                 ~Live /\ io[p].stat = 1
          /\ (max_empty_dirs_to_delete = 0
                \/ stats.empty_dirs_to_delete < max_empty_dirs_to_delete) =>
               empty_dirs \subseteq reaper.processed_dirs)

\* a file vanished between its stat and its unlink, and the other file of the
\* directory was purged all the same
C20_Witness ==
  /\ Ended
  /\ stats.errors = 0
  /\ stats.files_to_purge = 2
  /\ stats.files_purged = 1
  /\ CallsOf("unlink") = 2

\* C21: the scan of a subdirectory that vanished after its parent listed it
\* returns without adding to errors.
C21_VanishedSubdirSilent ==
  [][\A d \in Universe :
       (scan[d].pc = "enter" /\ ~Exists(d) /\ scan'[d].pc = "done") =>
         stats'.errors = stats.errors]_vars

\* the file tasks inside `async with self.scanning_semaphore`
Scanning == {p \in Universe : ftask[p].pc \in {"statted", "marked", "deleting"}}

\* the file tasks inside `async with self.deletion_semaphore`
Deleting == {p \in Universe : ftask[p].pc = "deleting"}

\* C22: the file tasks holding the scanning semaphore are at most
\* max_concurrency_scanning, those holding the deletion semaphore at most
\* max_concurrency_deletion; the deletion semaphore is taken by a task that
\* holds the scanning semaphore and given back no later than it; with
\* max_concurrency_scanning = 1 the run still ends.
C22_SemaphoresBound ==
  /\ [](/\ scanning_semaphore >= 0
        /\ deletion_semaphore >= 0
        /\ Cardinality(Scanning) = max_concurrency_scanning - scanning_semaphore
        /\ Cardinality(Deleting) = max_concurrency_deletion - deletion_semaphore)
  /\ [][/\ deletion_semaphore' < deletion_semaphore =>
             \E p \in Scanning : p \notin Deleting /\ p \in Deleting'
        /\ \A p \in Deleting :
             p \notin Scanning' => deletion_semaphore' > deletion_semaphore]_vars
  /\ (max_concurrency_scanning = 1 => <>Ended)

\* one slot for stat: a task waits for it while the holder is unlinking
C22_Witness ==
  /\ max_concurrency_scanning = 1
  /\ scanning_semaphore = 0
  /\ deletion_semaphore = 0
  /\ \E p, q \in Universe : ftask[p].pc = "deleting" /\ ftask[q].pc = "start"

\* C23: a task waiting to stat can take a scanning slot whenever the holders
\* of the scanning semaphore are all waiting for, or holding, the deletion
\* semaphore (no stat is in flight then).
C23_DeletionLeavesScanningFree ==
  \A q \in Universe :
    (/\ ftask[q].pc = "start"
     /\ \A p \in Scanning : ftask[p].pc \in {"marked", "deleting"}) =>
      Acquirable(scanning_semaphore)

\* the dispatcher of d is suspended in asyncio.wait: none of its tasks is done
Suspended(d) ==
  /\ scan[d].pc = "disp_wait"
  /\ \A s \in scan[d].active_tasks : scan[s].pc # "done"

\* C25: while the dispatcher is suspended with paths pending, exactly
\* max_concurrent_subdirs of its scan tasks are in flight; when it wakes and
\* goes back to waiting, the head of the pending list has become a task.
C25_NoIdleSlot ==
  /\ [](\A d \in Nodes :
          (Suspended(d) /\ scan[d].remaining_subdirs # <<>>) =>
            /\ Cardinality(scan[d].active_tasks) = max_concurrent_subdirs
            /\ scan[d].active_tasks \subseteq InFlight)
  /\ [][\A d \in Nodes :
          (/\ scan[d].pc = "disp_wait"
           /\ scan'[d].pc = "disp_wait"
           /\ scan'[d] # scan[d]
           /\ scan[d].remaining_subdirs # <<>>) =>
            /\ Head(scan[d].remaining_subdirs) \in scan'[d].active_tasks
            /\ scan'[Head(scan[d].remaining_subdirs)].pc = "created"]_vars

\* one slot, two subdirectories: the second was started when the first ended
C25_Witness ==
  /\ max_concurrent_subdirs = 1
  /\ Suspended(Root)
  /\ scan[Root].iterations = 2
  /\ \E s \in scan[Root].active_tasks : scan[s].pc = "enter"

\* the levels of directories below the root
Depth == Max({Len(d) - 1 : d \in {p \in Nodes : KindOf(p) = "dir"}})

\* C26 as stated: the registered directories never exceed
\* max_concurrent_subdirs + 1, whatever the depth of the tree.
C26_ActiveWithinCapPlusRoot ==
  Cardinality(active_directories) <= max_concurrent_subdirs + 1

\* C26 amended: the registered directories never exceed one (the root) plus,
\* for each of the max_concurrent_subdirs dispatched scans, one directory per
\* level of the tree below the root; max_concurrent_subdirs + 1 for a root
\* whose subdirectories hold no directories.
C26_ActiveWithinCapTimesDepth ==
  Cardinality(active_directories) <= 1 + max_concurrent_subdirs * Depth

\* a chain of nested scans is registered at once, under one slot
C26_Witness ==
  /\ max_concurrent_subdirs = 1
  /\ Depth = 2
  /\ Cardinality(active_directories) = 3

\* the file tasks and the scans strictly below d are not running, and what d
\* listed has been handled: its files processed, its subdirectories scanned
Quiet(d) ==
  /\ \A p \in Universe :
       IsUnder(p, d) =>
         /\ ftask[p].pc \in {"idle", "done"}
         /\ p \in Nodes => scan[p].pc \in {"idle", "done"}
  /\ \A k \in 1..Len(scan[d].entries) :
       Classify(scan[d].entries[k]) = "file" =>
         ftask[scan[d].entries[k].path].pc = "done"
  /\ \A k \in 1..Len(scan[d].subdirs) : scan[scan[d].subdirs[k]].pc = "done"

\* C30: the emptiness check of a directory starts only when every file task
\* of the directory and every scan below it, at any depth, has returned; a
\* path enters empty_dirs only in the step where its scanner, holding the
\* statistics mutex, lists it and finds no entry, the path is never the root,
\* and empty_dirs, a set, holds no path twice.
C30_CheckAfterRecursion ==
  /\ [](\A d \in Nodes : scan[d].pc \in {"check", "check_locked"} => Quiet(d))
  /\ [](Root \notin empty_dirs /\ IsFiniteSet(empty_dirs))
  /\ [][\A d \in Nodes :
         (d \in empty_dirs' /\ d \notin empty_dirs) =>
           /\ ~IsRootDir(d)
           /\ scan[d].pc = "check_locked"
           /\ stats_lock = d
           /\ io'[d].scandir = io[d].scandir + 1
           /\ ScandirResult(d).err = "ok"
           /\ ScandirResult(d).entries = <<>>
           /\ empty_dirs' = empty_dirs \cup {d}]_vars

\* a directory whose file was purged and whose subdirectory was scanned is
\* being re-checked under the mutex
C30_Witness ==
  \E d \in Nodes :
    /\ scan[d].pc = "check_locked"
    /\ stats_lock = d
    /\ scan[d].subdirs # <<>>
    /\ \E k \in 1..Len(scan[d].entries) : Classify(scan[d].entries[k]) = "file"
    /\ empty_dirs # {}

\* scan_directory(d) is at a point it reaches only through a call of
\* check_memory_pressure that has returned
PastGovernor(frames, d) == frames[d].pc \in {"drain", "disp_wait", "seq_wait"}

\* C27: with memory_limit_mb = 0 no call of check_memory_pressure samples
\* memory, takes memory_check_lock or sleeps, and none changes a counter:
\* the call returns within the step that makes it, and
\* memory_backpressure_events is 0 in every state of the run.
C27_GovernorOffIsNoOp ==
  /\ [](memory_limit_mb = 0 =>
          /\ governor = NoGovernor
          /\ stats.memory_backpressure_events = 0
          /\ \A d \in Nodes : scan[d].pc \notin {"pressure", "pressure_count", "pressure_sleep"})
  /\ [][\A d \in Nodes :
         (/\ memory_limit_mb = 0
          /\ scan[d].pc = "loop"
          /\ scan'[d].pc # "loop"
          /\ scan'[d].pc # "check") =>
           /\ PastGovernor(scan', d)
           /\ stats' = stats
           /\ governor' = governor]_vars

\* no limit, a batch handed to gather and the subdirectories handed on: two
\* calls of check_memory_pressure have returned
C27_Witness ==
  /\ memory_limit_mb = 0
  /\ \E d, e \in Nodes :
       /\ scan[d].pc = "disp_wait"
       /\ stats.files_scanned > 0
       /\ scan[e].pc = "drain"
       /\ \E p \in Range(scan[e].file_task_buffer) : ftask[p].pc # "idle"

\* the path as a string equals the entry or starts with the entry and "/"
Matches(s) ==
  \E dangerous \in dangerous_paths :
    s = dangerous \/ StartsWith(s, dangerous \o <<"/">>)

HungCall ==
  \/ \E d \in Nodes :
       \/ scan[d].pc = "hung"
       \/ scan[d].pc = "check_locked" /\ Hangs(d, "recheck")
  \/ \E p \in Universe :
       \/ ftask[p].pc = "hung"
       \/ ftask[p].pc = "deleting" /\ Hangs(p, "unlink")
  \/ /\ reaper.pc = "pick"
     /\ reaper.idx <= Len(reaper.sorted_dirs)
     /\ reaper.sorted_dirs[reaper.idx] \notin reaper.processed_dirs
     /\ Hangs(reaper.sorted_dirs[reaper.idx], "rescan")
  \/ /\ reaper.pc = "parent"
     /\ ParentExamined(Parent(reaper.sorted_dirs[reaper.idx]),
                       reaper.sorted_dirs[reaper.idx], reaper.processed_dirs)
     /\ Hangs(Parent(reaper.sorted_dirs[reaper.idx]), "rescan")
  \/ /\ reaper.pc = "rmdir"
     /\ Hangs(reaper.sorted_dirs[reaper.idx], "rmdir")

\* C29: once a system call of the run hangs, whichever it is, the reporter
\* goes on ticking and comes to emit the hang warning.
C29_HangIsReported ==
  HungCall ~> (reporter.warnings > 0)

\* two directories of the same parent
SiblingPairs ==
  {pair \in Universe \X Universe :
     pair[1] # pair[2] /\ Parent(pair[1]) = Parent(pair[2])}

\* scan_directory(s) has been entered
ScanStarted(s) == scan[s].pc \notin {"idle", "created"}

\* C24: with max_concurrent_subdirs >= 2, when the scan of a subdirectory
\* hangs, every other subdirectory its parent listed still comes to be
\* scanned, at the root and below it.
C24_SiblingsStillStart ==
  \A pair \in SiblingPairs :
    (/\ max_concurrent_subdirs >= 2
     /\ scan[pair[1]].pc = "hung"
     /\ pair[1] \in Range(scan[Parent(pair[1])].subdirs)
     /\ pair[2] \in Range(scan[Parent(pair[1])].subdirs))
      ~> ScanStarted(pair[2])

(***************************************************************************)
(* The progress reporter and the end of purge().                           *)
(***************************************************************************)
\* C31: a reporter tick adds one to the stall counter when the counters the
\* current phase watches (files_scanned and dirs_scanned while scanning,
\* empty_dirs_deleted while removing empty directories) are those stored at
\* the previous tick, and resets it to 0 otherwise; it warns exactly when the
\* counter is then at least 2; it changes no statistics counter, stops
\* nothing and cancels no task
C31_StallCounter ==
  [][reporter' # reporter =>
       LET same == IF current_phase = "removing_empty_dirs"
                   THEN stats.empty_dirs_deleted = reporter.last_empty_dirs_deleted
                   ELSE /\ stats.files_scanned = reporter.last_files_scanned
                        /\ stats.dirs_scanned = reporter.last_dirs_scanned
       IN  /\ reporter'.stuck_detection_count =
                IF same THEN reporter.stuck_detection_count + 1 ELSE 0
           /\ reporter'.warnings =
                IF reporter'.stuck_detection_count >= 2
                THEN reporter.warnings + 1 ELSE reporter.warnings
           /\ UNCHANGED <<stats, main, scan, ftask, reaper, current_phase,
                          semaphores, active_directories>>]_vars

\* a warning given during the scan, and one given during the removal of
\* empty directories after a tick that saw a directory removed
C31_Witness ==
  /\ reporter.warnings = 1
  /\ reporter.stuck_detection_count = 2
  /\ reporter.last_phase = "removing_empty_dirs"
  /\ reporter.last_empty_dirs_deleted > 0

\* C32: a warning given while the phase is removing_empty_dirs follows a
\* tick taken in that same phase: the stall count of the scanning phase is
\* not carried over
C32_ReapWarningAfterReapTick ==
  [][(reporter'.warnings > reporter.warnings
        /\ current_phase = "removing_empty_dirs")
       => reporter.last_phase = "removing_empty_dirs"]_vars

C34_BackPressure ==
  /\ [](Cardinality({d \in Nodes :
                       scan[d].pc \in {"pressure_count", "pressure_sleep"}}) <= 1)
  /\ [][\A d \in Nodes :
         /\ (scan[d].pc = "pressure_count" /\ scan'[d].pc # "pressure_count") =>
              /\ scan'[d].pc = "pressure_sleep"
              /\ stats' = [stats EXCEPT !.memory_backpressure_events = @ + 1]
              /\ governor'.sleeps = governor.sleeps + 1
         /\ (scan[d].pc = "pressure" /\ scan'[d].pc # "pressure") =>
              /\ governor'.samples = governor.samples + 1
              /\ stats' = stats
         /\ (scan[d].pc = "pressure_sleep" /\ scan'[d].pc # "pressure_sleep") =>
              /\ scan'[d].pc \in {"drain", "disp_wait", "seq_wait"}
              /\ governor'.samples = governor.samples
              /\ governor'.sleeps = governor.sleeps
              /\ stats' = stats]_vars
  /\ [](stats.memory_backpressure_events = governor.sleeps)
  /\ (governor.lock # Free) ~> (governor.lock = Free)
  /\ <>(/\ scanning_end_time = "set"
         /\ \A d \in Nodes : scan[d].pc \in {"idle", "done"})
  /\ [][governor'.warnings # governor.warnings =>
         /\ governor'.warnings = governor.warnings + 1
         /\ governor'.last_memory_warning - governor.last_memory_warning
              >= 60]_vars

\* two warnings written, two checks above the limit counted, one coroutine
\* in its pause while another waits for the mutex
C34_Witness ==
  /\ memory_limit_mb > 0
  /\ governor.warnings = 2
  /\ stats.memory_backpressure_events = 2
  /\ \E d, e \in Nodes : scan[d].pc = "pressure_sleep" /\ scan[e].pc = "pressure"


(***************************************************************************)
(* The file buffer of scan_directory.                                      *)
(***************************************************************************)
\* the regular files among the first n entries of a listing, in its order
FilesAmong(entries, n) ==
  LET files == SelectSeq(SubSeq(entries, 1, n), LAMBDA e : Classify(e) = "file")
  IN  [k \in 1..Len(files) |-> files[k].path]

IsSuffix(s, t) ==
  /\ Len(s) <= Len(t)
  /\ s = SubSeq(t, Len(t) - Len(s) + 1, Len(t))

\* C35: the buffer of a directory never holds more than task_batch_size
\* items and holds the last files read, in scandir's order; a drain made
\* before the last entry was read holds exactly task_batch_size items, every
\* drain at most that; after a drain, ended or failed, the buffer is empty;
\* the files of a drain that starts have been in no earlier drain
C35_BufferDrained ==
  /\ [](\A d \in Nodes :
          /\ Len(scan[d].file_task_buffer) <= task_batch_size
          /\ IsSuffix(scan[d].file_task_buffer,
                      FilesAmong(scan[d].entries, scan[d].i - 1))
          /\ scan[d].pc = "loop" =>
               Len(scan[d].file_task_buffer) < task_batch_size)
  /\ [][\A d \in Nodes :
         /\ (scan[d].pc # "drain" /\ scan'[d].pc = "drain") =>
              /\ scan'[d].file_task_buffer # <<>>
              /\ scan'[d].i <= Len(scan'[d].entries) =>
                   Len(scan'[d].file_task_buffer) = task_batch_size
              /\ \A p \in Range(scan'[d].file_task_buffer) :
                   ftask[p].pc = "idle" /\ ftask'[p].pc # "idle"
         /\ (scan[d].pc = "drain" /\ scan'[d].pc # "drain") =>
              scan'[d].file_task_buffer = <<>>
         /\ (/\ scan[d].pc = "pressure"
             /\ scan'[d].pc \notin {"pressure", "pressure_count", "drain"}) =>
              scan'[d].file_task_buffer = <<>>]_vars

\* a second drain of the root's files under way after a first of a full
\* batch
C35_Witness ==
  /\ scan[Root].pc = "drain"
  /\ Len(scan[Root].file_task_buffer) = task_batch_size
  /\ \E p \in Universe :
       /\ Parent(p) = Root
       /\ ftask[p].pc = "done"
       /\ p \notin Range(scan[Root].file_task_buffer)


(***************************************************************************)
(* The reaper: candidates handled once, errors, the cascade.               *)
(***************************************************************************)
\* C36: in one run of the reaper no directory is the argument of rmdir
\* twice or counted in empty_dirs_to_delete twice: processed_dirs only
\* grows, a directory is counted in the step that marks it, being unmarked
\* before, and a marked candidate is passed over without a system call or a
\* counter changed, in the first pass and in the cascade
C36_ProcessedOnce ==
  /\ [](\A p \in Nodes : io[p].rmdir <= 1)
  /\ [](stats.empty_dirs_to_delete <= Cardinality(reaper.processed_dirs))
  /\ [][/\ reaper.processed_dirs \subseteq reaper'.processed_dirs
        /\ stats'.empty_dirs_to_delete # stats.empty_dirs_to_delete =>
             /\ stats'.empty_dirs_to_delete = stats.empty_dirs_to_delete + 1
             /\ reaper.sorted_dirs[reaper.idx] \notin reaper.processed_dirs
             /\ reaper.sorted_dirs[reaper.idx] \in reaper'.processed_dirs
        /\ (/\ reaper' # reaper
            /\ reaper.pc = "pick"
            /\ reaper.idx <= Len(reaper.sorted_dirs)
            /\ reaper.sorted_dirs[reaper.idx] \in reaper.processed_dirs) =>
             /\ reaper' = [reaper EXCEPT !.idx = @ + 1]
             /\ io' = io
             /\ stats' = stats
             /\ fs' = fs]_vars

\* a directory removed in the first pass comes up again in the cascade, its
\* child having reported it
C36_Witness ==
  /\ reaper.pc = "pick"
  /\ reaper.pass = 2
  /\ reaper.idx <= Len(reaper.sorted_dirs)
  /\ reaper.sorted_dirs[reaper.idx] \in reaper.processed_dirs
  /\ io[reaper.sorted_dirs[reaper.idx]].rmdir = 1


\* the candidate the reaper is at
Candidate == reaper.sorted_dirs[reaper.idx]

\* the reaper's step is the re-scan of its candidate, or the rmdir, and the
\* call fails with an error other than not-found
RescanFails ==
  /\ reaper.pc = "pick"
  /\ reaper.idx <= Len(reaper.sorted_dirs)
  /\ Candidate \notin reaper.processed_dirs
  /\ ~RateLimitReached
  /\ Resolve(Candidate) # Resolve(Root)
  /\ ScandirResult(Candidate).err \notin {"ok", "FileNotFoundError"}

RmdirFails ==
  /\ reaper.pc = "rmdir"
  /\ ~dry_run
  /\ RmdirResult(Candidate) \notin {"ok", "FileNotFoundError"}

\* C37: when the re-scan or the rmdir of a candidate fails with an OS error
\* other than not-found, errors goes up by exactly 1 and no other counter
\* changes, the candidate is marked processed, its parent is not looked at
\* (no scandir of it, the cascade set unchanged), and the reaper is at the
\* next candidate of the same pass; the failed call is not made again
C37_ReapFailureCounted ==
  /\ [][(reaper' # reaper /\ (RescanFails \/ RmdirFails)) =>
          /\ stats' = [stats EXCEPT !.errors = @ + 1]
          /\ fs' = fs
          /\ reaper' = [reaper EXCEPT
                          !.pc = "pick", !.idx = @ + 1,
                          !.processed_dirs = @ \cup {Candidate}]
          /\ io'[Parent(Candidate)] = io[Parent(Candidate)]]_vars
  /\ [][\A p \in Universe :
          (p \in reaper.processed_dirs /\ reaper'.pc # "idle") =>
            io'[p] = io[p]]_vars

\* a candidate that another process filled after the re-scan: the rmdir
\* failed, the error is counted and the reaper is past the candidate
C37_Witness ==
  /\ stats.errors = 1
  /\ stats.empty_dirs_to_delete = 0
  /\ last_io.op = "rmdir"
  /\ reaper.pc = "pick"
  /\ last_io.path \in reaper.processed_dirs
  /\ \E c \in Universe : InDir(last_io.path, c)


(***************************************************************************)
(* Mutexes and semaphores: who waits for whom.                             *)
(***************************************************************************)
\* the coroutines whose next step is the acquisition of a semaphore
AwaitsSemaphore ==
  {d \in Nodes : scan[d].pc = "created"}
    \cup {p \in Universe : ftask[p].pc \in {"start", "marked"}}

\* the holder of the statistics mutex is at the scandir of
\* _check_empty_directory; the holder of the back-pressure mutex waits for
\* the statistics mutex or sleeps; neither waits for a semaphore, and no
\* coroutine inside check_memory_pressure holds the statistics mutex
NestedInOrder ==
  /\ stats_lock # Free =>
       /\ scan[stats_lock].pc = "check_locked"
       /\ governor.lock # stats_lock
       /\ stats_lock \notin AwaitsSemaphore
  /\ governor.lock # Free =>
       /\ scan[governor.lock].pc \in {"pressure_count", "pressure_sleep"}
       /\ governor.lock \notin AwaitsSemaphore
  /\ \A d \in Nodes :
       scan[d].pc \in {"pressure", "pressure_count", "pressure_sleep"}
         => stats_lock # d

Top(d) == SubSeq(d, 1, 2)

\* C39: only the scan of the root is ever in the dispatcher, and only the
\* directories just below the root get a task; a scanner other than the
\* root's that turns to its subdirectories sees the semaphore below its
\* capacity and calls scan_directory on them itself, one at a time; a
\* directory two or more levels down is scanned while its parent waits for
\* that very call, inside the task of its ancestor just below the root
C39_OnlyRootDispatches ==
  /\ [](\A d \in Universe :
          /\ scan[d].pc # "disp_wait"
          /\ scan[d].active_tasks = {}
          /\ scan[d].dispatched => Parent(d) = Root
          /\ (Len(d) >= 3 /\ scan[d].pc \notin {"idle", "done"}) =>
               /\ scan[Parent(d)].pc = "seq_wait"
               /\ Head(scan[Parent(d)].remaining_subdirs) = d
               /\ scan[Top(d)].dispatched
               /\ scan[Top(d)].pc \notin {"idle", "created", "done"})
  /\ [][\A d \in Universe :
         (scan[d].pc # "seq_wait" /\ scan'[d].pc = "seq_wait") =>
           /\ subdir_semaphore < max_concurrent_subdirs
           /\ subdir_semaphore' = subdir_semaphore
           /\ \A s \in Nodes : scan'[s].dispatched = scan[s].dispatched]_vars

\* r/a/c being scanned inside the task of r/a, called by its scanner, with a
\* slot of the semaphore free and the root in its dispatcher
C39_Witness ==
  /\ scan[Root].pc = "disp_wait"
  /\ max_concurrent_subdirs = 2
  /\ subdir_semaphore = 1
  /\ scan[<<"r", "a">>].pc = "seq_wait"
  /\ scan[<<"r", "a", "c">>].pc \notin {"idle", "done"}


(***************************************************************************)
(* The cascade ends.                                                       *)
(***************************************************************************)
\* levels below the root
Level(p) == Len(p) - 1

\* C40: the reaper ends, other processes changing the tree or not.  A
\* directory enters the cascade set only as the parent of the candidate
\* just processed, not being processed itself and not the root; in cascade
\* iteration n every candidate lies at least n levels above the deepest
\* directory processed, so there are fewer iterations than the tree has
\* levels; in a dry run on a tree nothing else touches the cascade set stays
\* empty
C40_ReaperTerminates ==
  /\ <>(main = "done" /\ reaper.new_empty_parents = {})
  /\ [](reaper.pass = 2 =>
          \A s \in Range(reaper.sorted_dirs) \cup reaper.new_empty_parents :
            /\ Level(s) >= 1
            /\ Level(s) + reaper.iteration
                 <= Max({Level(p) : p \in reaper.processed_dirs}))
  /\ [](reaper.iteration < Max({Level(p) : p \in Universe}))
  /\ [](dry_run /\ ext_left = MaxExternal + 1 =>
          reaper.new_empty_parents = {} /\ reaper.pass # 2)
  /\ [][\A p \in Nodes :
         (p \in reaper'.new_empty_parents /\ p \notin reaper.new_empty_parents) =>
           /\ p = Parent(reaper.sorted_dirs[reaper.idx])
           /\ p # Root
           /\ p \notin reaper.processed_dirs
           /\ reaper.sorted_dirs[reaper.idx] \in reaper.processed_dirs
           /\ reaper'.new_empty_parents = reaper.new_empty_parents \cup {p}]_vars

\* the second cascade iteration has run on a tree another process added to,
\* and the reaper has ended
C40_Witness ==
  /\ main = "done"
  /\ reaper.iteration = 2
  /\ ext_left < MaxExternal + 1
  /\ stats.empty_dirs_deleted = 3


====
